---- MODULE Spec2Model ----
(***************************************************************************)
(* tinyllama-x: the simulate -> confirm -> execute workflow of             *)
(* tinyllamax/core/planner.py, the Shell Runner of tinyllamax/utils/       *)
(* shell.py, the package-manager adapters, the planner (build_plan), the   *)
(* history log of tinyllamax/core/history.py and the CLI commands of       *)
(* tinyllamax/cli.py that drive them (Spec); the BackgroundTask and        *)
(* CancellationToken of tinyllamax/gui/services.py with their two threads  *)
(* (TaskSpec, and TaskFairSpec under a fair scheduler); the                *)
(* OperationHistory store and its queries (StoreSpec, QuerySpec) and the   *)
(* threads that add to it at the same time (WriterSpec); the window of     *)
(* tinyllamax/gui/gtk_app.py with its buttons, idle callbacks and workers  *)
(* (GuiSpec); the adapter methods, get_adapter, build_plan, parse_intent,  *)
(* summarize_output, simulate and execute on the plans of build_plan, the  *)
(* history singleton and the SafeExecutor of lib/executor.py applied on    *)
(* their own to the arguments a caller can pass (PureSpec).                *)
(*                                                                         *)
(* Python values are represented as follows.  An optional value is a set   *)
(* with at most one element (None is the empty set).  A str is a TLA+      *)
(* string, a list[str] a sequence of strings.                              *)
(***************************************************************************)
EXTENDS Integers, Sequences, FiniteSets, TLC

VARIABLES
    cmd,        \* the entry point that is running, "none" before one starts
    pc,         \* the position of the caller inside that entry point
    plan,       \* Optional[Plan]: the plan the entry point built or was given
    runFlag,    \* --real / --run / execute_real of the running entry point
    escaped,    \* the exception that escaped the entry point, "" when none
    calls,      \* the calls made so far by the entry point, in program order
    runIntentRet, \* Optional: the tuple run_intent returned
    history,    \* the rows of the operations table, in insertion order
    nextId,     \* the id AUTOINCREMENT gives to the next row
    ncalls,     \* number of direct simulate/execute calls of the API caller
    token,      \* CancellationToken: its _cancelled flag and the holder of its _lock
    task,       \* BackgroundTask: func and the callbacks it was constructed with
    worker,     \* the thread running _run: its position and the value it holds
    caller,     \* the thread that owns the task: its position in a token call
    events,     \* what the two threads did so far, in the order it happened
    ops,        \* the calls made on the OperationHistory so far, with their results
    schema,     \* the database file: whether operations exists, and its indexes
    writers,    \* the threads inside add: the holder of the write lock, their positions
    applied,    \* the function applied on its own, its arguments and its result
    gui         \* the window of gui/gtk_app.py, its presenter and its tasks

\* the state of the workflow and its entry points
workflowVars == <<cmd, pc, plan, runFlag, escaped, calls, runIntentRet, ncalls>>
\* the state of gui/services.py
taskVars == <<token, task, worker, caller, events>>
\* the calls on the store and the schema of its file
storeVars == <<ops, schema, writers>>
\* the application of a function of the adapters, the planner or the parser
pureVars == <<applied>>
\* the state of gui/gtk_app.py
guiVars == <<gui>>

vars == <<cmd, pc, plan, runFlag, escaped, calls, runIntentRet, history, nextId, ncalls,
          token, task, worker, caller, events, ops, schema, writers, applied, gui>>

----------------------------------------------------------------------------
(* Bounds of the model *)

\* timestamps read from the system clock range over 0..MaxClock
MaxClock == 1
\* number of simulate/execute calls an API caller makes on one plan
MaxCalls == 2

----------------------------------------------------------------------------
(* Optional values *)

None == {}
Some(v) == {v}
The(o) == CHOOSE v \in o : TRUE

\* Python truthiness of an Optional[list[str]]: None and [] are falsy
Truthy(o) == o # None /\ The(o) # <<>>

----------------------------------------------------------------------------
(* str helpers: the parts of the Python str API the program uses *)

Whitespace == {" ", "\n", "\t"}

CharAt(s, i) == SubSeq(s, i, i)

\* s[:n] (the variant is s, not sliced)
Prefix_whole(s, n) == s
Prefix(s, n) == IF Len(s) <= n THEN s ELSE SubSeq(s, 1, n)

\* s.startswith(p)
StartsWith(s, p) == Len(s) >= Len(p) /\ SubSeq(s, 1, Len(p)) = p

RECURSIVE LStrip(_)
LStrip(s) ==
    IF s = "" THEN ""
    ELSE IF CharAt(s, 1) \in Whitespace THEN LStrip(SubSeq(s, 2, Len(s)))
    ELSE s

RECURSIVE RStrip(_)
RStrip(s) ==
    IF s = "" THEN ""
    ELSE IF CharAt(s, Len(s)) \in Whitespace THEN RStrip(SubSeq(s, 1, Len(s) - 1))
    ELSE s

\* s.strip()
Strip(s) == RStrip(LStrip(s))

Upper == "ABCDEFGHIJKLMNOPQRSTUVWXYZ"
Lower == "abcdefghijklmnopqrstuvwxyz"

LowerChar(c) ==
    IF \E i \in 1..Len(Upper) : CharAt(Upper, i) = c
    THEN CharAt(Lower, CHOOSE i \in 1..Len(Upper) : CharAt(Upper, i) = c)
    ELSE c

\* s.lower()
RECURSIVE ToLower(_)
ToLower(s) ==
    IF s = "" THEN "" ELSE LowerChar(CharAt(s, 1)) \o ToLower(SubSeq(s, 2, Len(s)))

\* the first line of s and the rest after its line break
RECURSIVE LineEnd(_, _)
LineEnd(s, i) ==
    IF i > Len(s) THEN i
    ELSE IF CharAt(s, i) = "\n" THEN i
    ELSE LineEnd(s, i + 1)

\* s.splitlines(), line breaks being "\n"
RECURSIVE SplitLines(_)
SplitLines(s) ==
    IF s = "" THEN <<>>
    ELSE LET e == LineEnd(s, 1)
         IN  <<SubSeq(s, 1, e - 1)>> \o SplitLines(SubSeq(s, e + 1, Len(s)))

\* index of the end of the first whitespace-free run of s starting at i
RECURSIVE WordEnd(_, _)
WordEnd(s, i) ==
    IF i > Len(s) THEN i
    ELSE IF CharAt(s, i) \in Whitespace THEN i
    ELSE WordEnd(s, i + 1)

\* s.split(): the whitespace-separated words of s (the variant does not
\* split: its only word is s)
Split_whole(s) == <<s>>
RECURSIVE Split(_)
Split(s) ==
    LET t == LStrip(s)
    IN  IF t = "" THEN <<>>
        ELSE LET e == WordEnd(t, 1)
             IN  <<SubSeq(t, 1, e - 1)>> \o Split(SubSeq(t, e, Len(t)))

\* sep.join(parts)
RECURSIVE Join(_, _)
Join(parts, sep) ==
    IF parts = <<>> THEN ""
    ELSE IF Len(parts) = 1 THEN parts[1]
    ELSE parts[1] \o sep \o Join(Tail(parts), sep)

\* [l for l in lines if l.strip()]
RECURSIVE NonBlank(_)
NonBlank(lines) ==
    IF lines = <<>> THEN <<>>
    ELSE IF Strip(Head(lines)) # "" THEN <<Head(lines)>> \o NonBlank(Tail(lines))
    ELSE NonBlank(Tail(lines))

\* xs[:n] for n >= 0 (the variant of the slice below)
FirstN(xs, n) == IF Len(xs) > n THEN SubSeq(xs, 1, n) ELSE xs

\* xs[-n:]: the last n elements for n >= 1; -0 is 0, so xs[-0:] is all of
\* xs; for n < 0 the slice starts at index -n and drops the first -n elements
LastN(xs, n) ==
    IF n >= 1 THEN (IF Len(xs) > n THEN SubSeq(xs, Len(xs) - n + 1, Len(xs)) ELSE xs)
    ELSE IF n = 0 THEN xs
    ELSE IF Len(xs) > -n THEN SubSeq(xs, 1 - n, Len(xs)) ELSE <<>>

----------------------------------------------------------------------------
(* tinyllamax/utils/shell.py *)

ShellResult(command, returncode, stdout, stderr, simulated) ==
    [command |-> command, returncode |-> returncode, stdout |-> stdout,
     stderr |-> stderr, simulated |-> simulated]

\* What subprocess.run can do with an argument vector: complete with an exit
\* code and captured output, exceed the timeout, or fail to spawn.
Completed(rc, out, err) == [kind |-> "completed", rc |-> rc, out |-> out, err |-> err]
TimedOut == [kind |-> "timeout", rc |-> 0, out |-> "", err |-> ""]
SpawnFailed(msg) == [kind |-> "oserror", rc |-> 0, out |-> "", err |-> msg]

Outcomes ==
    { Completed(0, "line1\nline2\n", ""),
      Completed(0, "done", "W: held back"),
      Completed(1, "", "E: Unable to locate package\n"),
      Completed(1, "", ""),
      TimedOut,
      SpawnFailed("[Errno 2] No such file or directory") }

\* run without its broad "except Exception": a spawn failure propagates
run_reraise(c, o) ==
    IF o.kind = "completed"
    THEN [raised |-> "", res |-> Some(ShellResult(c, o.rc, o.out, o.err, FALSE))]
    ELSE IF o.kind = "timeout"
    THEN [raised |-> "", res |-> Some(ShellResult(c, -1, "", "TIMEOUT: command exceeded limit", FALSE))]
    ELSE [raised |-> "OSError", res |-> None]

\* run(cmd): the exception that escapes ("" when none) and the ShellResult
run(c, o) ==
    IF o.kind = "completed"
    THEN [raised |-> "", res |-> Some(ShellResult(c, o.rc, o.out, o.err, FALSE))]
    ELSE IF o.kind = "timeout"
    THEN [raised |-> "", res |-> Some(ShellResult(c, -1, "", "TIMEOUT: command exceeded limit", FALSE))]
    ELSE [raised |-> "", res |-> Some(ShellResult(c, -1, "", "ERROR: " \o o.err, FALSE))]

\* default of max_lines
DefaultMaxLines == 10

\* summarize_output keeping the head of the lines instead of the tail
summarize_output_head(stdout, stderr, max_lines) ==
    LET out_lines == NonBlank(SplitLines(Strip(stdout)))
        err_lines == NonBlank(SplitLines(Strip(stderr)))
        combined  == out_lines \o
                     (IF err_lines # <<>> THEN <<"--- STDERR ---">> \o err_lines ELSE <<>>)
        kept      == IF Len(combined) > max_lines THEN FirstN(combined, max_lines) ELSE combined
    IN  IF kept # <<>> THEN Join(kept, "\n") ELSE "<no output>"

summarize_output(stdout, stderr, max_lines) ==
    LET out_lines == NonBlank(SplitLines(Strip(stdout)))
        err_lines == NonBlank(SplitLines(Strip(stderr)))
        combined  == out_lines \o
                     (IF err_lines # <<>> THEN <<"--- STDERR ---">> \o err_lines ELSE <<>>)
        kept      == IF Len(combined) > max_lines THEN LastN(combined, max_lines) ELSE combined
    IN  IF kept # <<>> THEN Join(kept, "\n") ELSE "<no output>"

----------------------------------------------------------------------------
(* tinyllamax/utils/distro.py *)

\* (the variant answers "apt" for every id)
preferred_pkg_manager_apt(distro_id) == "apt"
preferred_pkg_manager(distro_id) ==
    LET d == ToLower(distro_id)
    IN  IF d \in {"ubuntu", "debian", "pop", "linuxmint", "mint"} THEN "apt"
        ELSE IF d \in {"fedora", "rhel", "centos", "alma", "rocky"} THEN "dnf"
        ELSE IF d \in {"arch", "manjaro", "endeavouros"} THEN "pacman"
        ELSE IF StartsWith(d, "opensuse") \/ d \in {"suse", "sles"} THEN "zypper"
        ELSE IF d = "alpine" THEN "apk"
        ELSE "unknown"

----------------------------------------------------------------------------
(* tinyllamax/adapters: one operator per adapter method; dry_run is the    *)
(* flag the adapter was constructed with                                   *)

apt_install(dry_run, packages) ==
    IF dry_run THEN <<"apt", "install", "-s">> \o packages
    ELSE <<"sudo", "apt", "install", "-y">> \o packages
apt_remove(dry_run, packages) ==
    IF dry_run THEN <<"apt", "remove", "-s">> \o packages
    ELSE <<"sudo", "apt", "remove", "-y">> \o packages
apt_update(dry_run) ==
    IF dry_run THEN <<"apt", "update", "-s">> ELSE <<"sudo", "apt", "update">>
apt_upgrade(dry_run) ==
    IF dry_run THEN <<"apt", "upgrade", "-s">> ELSE <<"sudo", "apt", "upgrade", "-y">>
apt_search(dry_run, query) == <<"apt", "search", query>>

\* (the variant keeps -y next to --assumeno)
dnf_install_confirms(dry_run, packages) ==
    IF dry_run THEN <<"dnf", "install", "--assumeno", "-y">> \o packages
    ELSE <<"sudo", "dnf", "install", "-y">> \o packages
dnf_install(dry_run, packages) ==
    IF dry_run THEN <<"dnf", "install", "--assumeno">> \o packages
    ELSE <<"sudo", "dnf", "install", "-y">> \o packages
dnf_remove(dry_run, packages) ==
    IF dry_run THEN <<"dnf", "remove", "--assumeno">> \o packages
    ELSE <<"sudo", "dnf", "remove", "-y">> \o packages
dnf_update(dry_run) ==
    IF dry_run THEN <<"dnf", "upgrade", "--assumeno">> ELSE <<"sudo", "dnf", "upgrade", "-y">>
dnf_upgrade(dry_run) ==
    IF dry_run THEN <<"dnf", "upgrade", "--assumeno">> ELSE <<"sudo", "dnf", "upgrade", "-y">>
dnf_search(dry_run, query) == <<"dnf", "search", query>>

pacman_install(dry_run, packages) ==
    IF dry_run THEN <<"pacman", "-Sp">> \o packages
    ELSE <<"sudo", "pacman", "-S", "--noconfirm">> \o packages
pacman_remove(dry_run, packages) ==
    IF dry_run THEN <<"pacman", "-R", "--print">> \o packages
    ELSE <<"sudo", "pacman", "-R", "--noconfirm">> \o packages
pacman_update(dry_run) ==
    IF dry_run THEN <<"pacman", "-Syu", "--print">>
    ELSE <<"sudo", "pacman", "-Syu", "--noconfirm">>
pacman_upgrade(dry_run) ==
    IF dry_run THEN <<"pacman", "-Qu">> ELSE <<"sudo", "pacman", "-Syu", "--noconfirm">>
pacman_search(dry_run, query) == <<"pacman", "-Ss", query>>

\* (the variant puts --dry-run after the operation)
zypper_install_flag_last(dry_run, packages) ==
    IF dry_run THEN <<"zypper", "install", "--dry-run">> \o packages
    ELSE <<"sudo", "zypper", "install", "-y">> \o packages
zypper_install(dry_run, packages) ==
    IF dry_run THEN <<"zypper", "--dry-run", "install">> \o packages
    ELSE <<"sudo", "zypper", "install", "-y">> \o packages
zypper_remove(dry_run, packages) ==
    IF dry_run THEN <<"zypper", "--dry-run", "remove">> \o packages
    ELSE <<"sudo", "zypper", "remove", "-y">> \o packages
zypper_update(dry_run) ==
    IF dry_run THEN <<"zypper", "--dry-run", "update">> ELSE <<"sudo", "zypper", "update", "-y">>
zypper_upgrade(dry_run) ==
    IF dry_run THEN <<"zypper", "--dry-run", "update">> ELSE <<"sudo", "zypper", "update", "-y">>
zypper_search(dry_run, query) == <<"zypper", "search", query>>

apk_install(dry_run, packages) ==
    IF dry_run THEN <<"apk", "add", "--simulate">> \o packages
    ELSE <<"sudo", "apk", "add">> \o packages
apk_remove(dry_run, packages) ==
    IF dry_run THEN <<"apk", "del", "--simulate">> \o packages
    ELSE <<"sudo", "apk", "del">> \o packages
apk_update(dry_run) ==
    IF dry_run THEN <<"apk", "update", "--simulate">> ELSE <<"sudo", "apk", "update">>
apk_upgrade(dry_run) ==
    IF dry_run THEN <<"apk", "upgrade", "--simulate">> ELSE <<"sudo", "apk", "upgrade">>
apk_search(dry_run, query) == <<"apk", "search", query>>

\* the keys of the adapter mapping
AdapterNames == {"apt", "dnf", "pacman", "zypper", "apk"}

\* adapter.install(packages) etc. of the adapter _get_adapter(pm, dry_run) returns
AdapterInstall(pm, dry_run, packages) ==
    CASE pm = "apt" -> apt_install(dry_run, packages)
      [] pm = "dnf" -> dnf_install(dry_run, packages)
      [] pm = "pacman" -> pacman_install(dry_run, packages)
      [] pm = "zypper" -> zypper_install(dry_run, packages)
      [] pm = "apk" -> apk_install(dry_run, packages)
AdapterRemove(pm, dry_run, packages) ==
    CASE pm = "apt" -> apt_remove(dry_run, packages)
      [] pm = "dnf" -> dnf_remove(dry_run, packages)
      [] pm = "pacman" -> pacman_remove(dry_run, packages)
      [] pm = "zypper" -> zypper_remove(dry_run, packages)
      [] pm = "apk" -> apk_remove(dry_run, packages)
AdapterUpdate(pm, dry_run) ==
    CASE pm = "apt" -> apt_update(dry_run)
      [] pm = "dnf" -> dnf_update(dry_run)
      [] pm = "pacman" -> pacman_update(dry_run)
      [] pm = "zypper" -> zypper_update(dry_run)
      [] pm = "apk" -> apk_update(dry_run)
AdapterUpgrade(pm, dry_run) ==
    CASE pm = "apt" -> apt_upgrade(dry_run)
      [] pm = "dnf" -> dnf_upgrade(dry_run)
      [] pm = "pacman" -> pacman_upgrade(dry_run)
      [] pm = "zypper" -> zypper_upgrade(dry_run)
      [] pm = "apk" -> apk_upgrade(dry_run)
AdapterSearch(pm, dry_run, query) ==
    CASE pm = "apt" -> apt_search(dry_run, query)
      [] pm = "dnf" -> dnf_search(dry_run, query)
      [] pm = "pacman" -> pacman_search(dry_run, query)
      [] pm = "zypper" -> zypper_search(dry_run, query)
      [] pm = "apk" -> apk_search(dry_run, query)

----------------------------------------------------------------------------
(* tinyllamax/core/intents.py and tinyllamax/core/planner.py: build_plan *)

\* An intent value: its variant tag, the text of its one string field
\* (package, query, command or error_text; "" for the variants without one)
\* and assume_yes.
Intent(tag, text, assume_yes) == [intent |-> tag, text |-> text, assume_yes |-> assume_yes]

\* (the variant drops real_cmd)
Plan_without_real(description, simulate_cmd, real_cmd) ==
    [description |-> description, simulate_cmd |-> simulate_cmd, real_cmd |-> None]
Plan(description, simulate_cmd, real_cmd) ==
    [description |-> description, simulate_cmd |-> simulate_cmd, real_cmd |-> real_cmd]

Built(p) == [raised |-> "", plan |-> Some(p)]
Raises(exc) == [raised |-> exc, plan |-> None]

\* build_plan(intent, distro_id): the exception raised ("" when none) and the Plan
build_plan(intent, distro_id) ==
    LET d  == IF distro_id = None \/ The(distro_id) = "" THEN "ubuntu" ELSE The(distro_id)
        pm == preferred_pkg_manager(d)
    IN  CASE intent.intent = "DetectDistro" ->
               Built(Plan("Detect Linux distribution and version",
                          Some(<<"cat", "/etc/os-release">>), None))
          [] intent.intent = "SearchPackage" ->
               IF pm \notin AdapterNames THEN Raises("ValueError")
               ELSE Built(Plan("Search for package '" \o intent.text \o "' using " \o pm,
                               Some(AdapterSearch(pm, TRUE, intent.text)),
                               Some(AdapterSearch(pm, FALSE, intent.text))))
          [] intent.intent = "InstallPackage" ->
               IF pm \notin AdapterNames THEN Raises("ValueError")
               ELSE Built(Plan("Install package '" \o intent.text \o "' using " \o pm,
                               Some(AdapterInstall(pm, TRUE, <<intent.text>>)),
                               Some(IF intent.assume_yes
                                    THEN AdapterInstall(pm, FALSE, <<intent.text>>)
                                    ELSE AdapterInstall(pm, FALSE, <<intent.text>>))))
          [] intent.intent = "RemovePackage" ->
               IF pm \notin AdapterNames THEN Raises("ValueError")
               ELSE Built(Plan("Remove package '" \o intent.text \o "' using " \o pm,
                               Some(AdapterRemove(pm, TRUE, <<intent.text>>)),
                               Some(AdapterRemove(pm, FALSE, <<intent.text>>))))
          [] intent.intent = "UpdateSystem" ->
               IF pm \notin AdapterNames THEN Raises("ValueError")
               ELSE Built(Plan("Update system package lists (" \o pm \o ")",
                               Some(AdapterUpdate(pm, TRUE)),
                               Some(AdapterUpdate(pm, FALSE))))
          [] intent.intent = "UpgradeSystem" ->
               IF pm \notin AdapterNames THEN Raises("ValueError")
               ELSE Built(Plan("Upgrade installed packages (" \o pm \o ")",
                               Some(AdapterUpgrade(pm, TRUE)),
                               Some(AdapterUpgrade(pm, FALSE))))
          [] intent.intent = "ExplainCommand" ->
               IF Split(intent.text) = <<>> THEN Raises("IndexError")
               ELSE Built(Plan("Explain command: " \o intent.text,
                               Some(<<"bash", "-lc",
                                      "type " \o Split(intent.text)[1] \o " || true">>),
                               None))
          [] OTHER -> Raises("ValueError")

----------------------------------------------------------------------------
(* tinyllamax/core/history.py: the write path *)

OperationRecord(id, timestamp, intent_type, command, status, output_summary, error_message) ==
    [id |-> id, timestamp |-> timestamp, intent_type |-> intent_type,
     command |-> command, status |-> status,
     output_summary |-> output_summary, error_message |-> error_message]

\* log_operation on a table whose id is not assigned by AUTOINCREMENT
log_operation_fixed_id(intent_type, command, status, output_summary, error_message, ts, id) ==
    OperationRecord(1, ts, intent_type, command, status, output_summary, error_message)

\* log_operation(...): the row OperationHistory.add inserts.  ts is what
\* datetime.now() returns (naive local wall-clock time, which can repeat or
\* step back), id the value AUTOINCREMENT assigns.
log_operation(intent_type, command, status, output_summary, error_message, ts, id) ==
    OperationRecord(id, ts, intent_type, command, status, output_summary, error_message)

----------------------------------------------------------------------------
(* tinyllamax/core/planner.py: simulate, confirm, execute *)

\* summary[:200]
SummaryLimit == 200
\* res.stderr[:500]
ErrorLimit == 500

\* SimulationResult / ExecutionResult
Result(p, res, summary) == [plan |-> p, result |-> res, summary |-> summary]

\* One call of simulate or execute as the caller and the environment see it:
\* the argument vectors passed to the Shell Runner, the exception that
\* escaped ("" when none), the value returned, the rows appended to the
\* history, and whether log_operation was attempted and accepted.
Call(fn, p, o, shell, raised, ret, rows, accept) ==
    [fn |-> fn, plan |-> p, outcome |-> o, shell |-> shell, raised |-> raised,
     ret |-> ret, rows |-> rows, accept |-> accept, answer |-> None, ok |-> FALSE]

\* The "except Exception: pass" around the logging of simulate: the
\* exception that leaves the try statement
\* (the variant without the handler re-raises)
simulate_except_reraise(exc) == exc
simulate_except(exc) == ""

\* The same handler of execute
execute_except(exc) == ""

\* The exception raised inside the try statement of simulate/execute: the
\* description has no first word (IndexError), or the store refuses the row
\* (in the variant the row is never written)
LogFailure_never_logs(p, accept) == "sqlite3.Error"
LogFailure(p, accept) ==
    IF Split(p.description) = <<>> THEN "IndexError"
    ELSE IF ~accept THEN "sqlite3.Error"
    ELSE ""

\* the early return of simulate (the variant tests "is None" only)
simulate_skips_narrow(p) == p.simulate_cmd = None
simulate_skips(p) == ~Truthy(p.simulate_cmd)

simulate_status(res) == "simulated"

\* the argument vector simulate hands to the Shell Runner (the variant
\* takes the real command)
simulate_argv_real(p) == IF p.real_cmd # None THEN The(p.real_cmd) ELSE The(p.simulate_cmd)
simulate_argv(p) == The(p.simulate_cmd)

simulate(p, o, accept, ts, id) ==
    IF simulate_skips(p)
    THEN Call("simulate", p, o, <<>>, "",
              Some(Result(p, Some(ShellResult(<<>>, 0, "", "", TRUE)), "<nothing to simulate>")),
              <<>>, accept)
    ELSE LET argv == simulate_argv(p)
             r    == run(argv, o)
         IN  IF r.raised # ""
             THEN Call("simulate", p, o, <<argv>>, r.raised, None, <<>>, accept)
             ELSE LET res     == [The(r.res) EXCEPT !.simulated = TRUE]
                      summary == summarize_output(res.stdout, res.stderr, DefaultMaxLines)
                      failure == LogFailure(p, accept)
                      cmd_str == Join(The(p.simulate_cmd), " ")
                      row     == log_operation(Split(p.description)[1], cmd_str,
                                               simulate_status(res),
                                               Prefix(summary, SummaryLimit), None, ts, id)
                      exc     == IF failure = "" THEN "" ELSE simulate_except(failure)
                  IN  Call("simulate", p, o, <<argv>>, exc,
                           IF exc = "" THEN Some(Result(p, Some(res), summary)) ELSE None,
                           IF failure = "" THEN <<row>> ELSE <<>>, accept)

\* input(prompt) gives a line, or raises EOFError (None here)
Answers == {None, Some(""), Some("y"), Some(" Yes\n"), Some("n"), Some("no")}

confirm(answer) ==
    IF answer = None THEN FALSE
    ELSE ToLower(Strip(The(answer))) \in {"", "y", "yes"}

\* the early return of execute
execute_skips(p) == ~Truthy(p.real_cmd)

\* the status execute logs (the variant ignores the exit code)
execute_status_always_success(res) == "success"
execute_status(res) == IF res.returncode = 0 THEN "success" ELSE "failed"

\* the error_message execute logs (the variant ignores the exit code)
execute_error_msg_any_code(res) ==
    IF res.stderr # "" THEN Some(Prefix(res.stderr, ErrorLimit)) ELSE None
execute_error_msg(res) ==
    IF res.returncode # 0 /\ res.stderr # "" THEN Some(Prefix(res.stderr, ErrorLimit)) ELSE None

\* the argument vector execute hands to the Shell Runner
execute_argv(p) == The(p.real_cmd)

execute(p, o, accept, ts, id) ==
    IF execute_skips(p)
    THEN Call("execute", p, o, <<>>, "", Some(Result(p, None, "<no execution needed>")),
              <<>>, accept)
    ELSE LET argv == execute_argv(p)
             r    == run(argv, o)
         IN  IF r.raised # ""
             THEN Call("execute", p, o, <<argv>>, r.raised, None, <<>>, accept)
             ELSE LET res     == The(r.res)
                      summary == summarize_output(res.stdout, res.stderr, DefaultMaxLines)
                      failure == LogFailure(p, accept)
                      cmd_str == Join(The(p.real_cmd), " ")
                      row     == log_operation(Split(p.description)[1], cmd_str,
                                               execute_status(res),
                                               Prefix(summary, SummaryLimit),
                                               execute_error_msg(res), ts, id)
                      exc     == IF failure = "" THEN "" ELSE execute_except(failure)
                  IN  Call("execute", p, o, <<argv>>, exc,
                           IF exc = "" THEN Some(Result(p, Some(res), summary)) ELSE None,
                           IF failure = "" THEN <<row>> ELSE <<>>, accept)

\* a call of confirm, as an entry of calls
ConfirmCall(p, answer, ok) ==
    [fn |-> "confirm", plan |-> p, outcome |-> TimedOut, shell |-> <<>>, raised |-> "",
     ret |-> None, rows |-> <<>>, accept |-> FALSE, answer |-> answer, ok |-> ok]

----------------------------------------------------------------------------
(* Inputs of the entry points *)

\* the intents a caller or the classifier supplies
WorkflowIntents ==
    { Intent("DetectDistro", "", FALSE),
      Intent("SearchPackage", "vim", FALSE),
      Intent("InstallPackage", "htop", FALSE),
      Intent("RemovePackage", "htop", TRUE),
      Intent("UpdateSystem", "", FALSE),
      Intent("UpgradeSystem", "", FALSE),
      Intent("ExplainCommand", "ls -la", FALSE),
      Intent("TroubleshootError", "E: broken pipe", FALSE) }

\* the intents the flags of the plan command can build
PlanFlagIntents ==
    { i \in WorkflowIntents :
        i.intent \in {"InstallPackage", "RemovePackage", "SearchPackage",
                      "UpdateSystem", "UpgradeSystem", "ExplainCommand"} }

\* what parse_os_release() reports as the distro id
DetectedDistros == {"ubuntu", "arch", "unknown"}

\* --distro of debug_intent
Overrides == {None, Some("alpine")}

\* distro_id of run_intent
RunIntentDistros == {None, Some("ubuntu"), Some("unknown")}

\* the plans an API caller hands to simulate and execute directly: plans of
\* build_plan, and plans built with Plan(...) whose commands are None or []
ApiPlans ==
    { The(build_plan(Intent("InstallPackage", "htop", FALSE), Some("ubuntu")).plan),
      The(build_plan(Intent("ExplainCommand", "ls -la", FALSE), None).plan),
      Plan("Reload units", None, Some(<<"systemctl", "daemon-reload">>)),
      Plan("Nothing to do", Some(<<>>), Some(<<>>)),
      Plan("", Some(<<"true">>), Some(<<"false">>)) }

----------------------------------------------------------------------------
(* tinyllamax/gui/services.py: CancellationToken and BackgroundTask *)

\* CancellationToken.__init__: the flag is False, the lock is free
CancellationToken == [cancelled |-> FALSE, lock |-> "free"]

\* "self._cancelled = True" of cancel() (the variant flips the flag)
cancel_toggles(flag) == ~flag
cancel_write(flag) == TRUE

\* check_cancelled(): "if self.is_cancelled(): raise CancellationError(...)"
check_cancelled_raises(read) == read

\* "if self.on_done and not self.token.is_cancelled()" of _run (the variant
\* drops the token test)
on_done_guard_unchecked(on_done, is_cancelled) == on_done
on_done_guard(on_done, is_cancelled) == on_done /\ ~is_cancelled

\* "if self.on_error and not self.token.is_cancelled()" of _run
on_error_guard(on_error, is_cancelled) == on_error /\ ~is_cancelled

\* the except clauses of _run: "except CancellationError: pass" comes first,
\* "except Exception as e" handles every other exception
except_clause(exc) == IF exc = "CancellationError" THEN "pass" ELSE "on_error"

\* BackgroundTask.__init__: func is "work" (any function; it may poll the
\* token) or "execute_plan" (the task of gtk_app._execute_real_command, which
\* runs presenter.execute_plan(plan)); on_done and on_error are given or None
BackgroundTask(func, on_done, on_error, p) ==
    [func |-> func, on_done |-> on_done, on_error |-> on_error, plan |-> p]

\* what one event of the two threads looks like: who acted, what happened,
\* the value passed (a result or an exception) and the flag read or written
Event(who, what, val, flag) == [who |-> who, what |-> what, val |-> val, flag |-> flag]

\* a thread that is not inside any call
Thread(at) == [pc |-> at, val |-> "", n |-> 0]

\* no task is running
TaskIdle ==
    /\ token = CancellationToken
    /\ task = BackgroundTask("work", FALSE, FALSE, None)
    /\ worker = Thread("unstarted")
    /\ caller = Thread("ready")
    /\ events = <<>>

\* get_stats starts from this dict
NoStats == [total |-> 0, success |-> 0, failed |-> 0, cancelled |-> 0, simulated |-> 0]

\* one call on the OperationHistory: the method, its arguments (limit or
\* keep_count n, command_pattern, intent_type), the records held before the
\* call, and what it returned (records, a count or an id, the stats dict)
StoreCall(op, n, pattern, intent_type, before, rows, ret, stats) ==
    [op |-> op, n |-> n, pattern |-> pattern, intent_type |-> intent_type,
     before |-> before, rows |-> rows, ret |-> ret, stats |-> stats]

\* no call was made on the store yet
NoOps == [call |-> StoreCall("none", 0, "", None, <<>>, <<>>, 0, NoStats), ids |-> <<>>]

----------------------------------------------------------------------------
(* tinyllamax/core/history.py: _init_db *)

\* a database file: whether the operations table exists, its rows, the id
\* AUTOINCREMENT assigns next, the names of its indexes
Database(table, rows, seq, indexes) ==
    [table |-> table, rows |-> rows, seq |-> seq, indexes |-> indexes]

\* the file sqlite3.connect creates when there is none at db_path
NewFile == Database(FALSE, <<>>, 1, {})

\* "CREATE TABLE IF NOT EXISTS operations (...)" (the variant creates the
\* table anew whether or not it exists)
create_table_replaces(db) == [db EXCEPT !.table = TRUE, !.rows = <<>>, !.seq = 1]
create_table_if_not_exists(db) ==
    IF db.table THEN db ELSE [db EXCEPT !.table = TRUE, !.rows = <<>>, !.seq = 1]

\* _init_db: the table, then the three "CREATE INDEX IF NOT EXISTS"
init_db(db) ==
    [create_table_if_not_exists(db) EXCEPT
        !.indexes = @ \cup {"idx_timestamp", "idx_intent", "idx_status"}]

\* the threads that call add or log_operation at the same time
MaxWriters == 2
\* no thread is inside add and no connection holds the write lock
NoWriters ==
    [lock |-> 0,
     at |-> [w \in 1..MaxWriters |-> [pc |-> "idle", record |-> None, id |-> 0]]]

\* no function was applied on its own yet
NotApplied == [fn |-> "none"]

\* TinyLlamaWindow after __init__: Run and Cancel are insensitive, "Simulate
\* Only" is checked, the presenter has no plan, no task was started and no
\* idle callback is queued (plans are numbered by the Propose click that
\* gave their text, 0 is no plan and no task)
Window ==
    [propose_button |-> TRUE, run_button |-> FALSE, cancel_button |-> FALSE,
     simulate_only_check |-> TRUE, dialog |-> FALSE,
     current_plan |-> 0, current_task |-> 0,
     tasks |-> <<>>, idle |-> <<>>, proposes |-> 0, simulated |-> {}, runs |-> <<>>]

----------------------------------------------------------------------------
(* The entry points *)

Init ==
    /\ cmd = "none"
    /\ pc = "idle"
    /\ plan = None
    /\ runFlag = FALSE
    /\ escaped = ""
    /\ calls = <<>>
    /\ runIntentRet = None
    /\ history = <<>>
    /\ nextId = 1
    /\ ncalls = 0
    /\ TaskIdle
    /\ ops = NoOps
    /\ schema = [table |-> init_db(NewFile).table, indexes |-> init_db(NewFile).indexes]
    /\ writers = NoWriters
    /\ applied = NotApplied
    /\ gui = Window

\* an entry point starts: it has its intent (or exits on a parse error) and
\* builds the plan
Begin(name, b, flag) ==
    /\ cmd = "none"
    /\ cmd' = name
    /\ runFlag' = flag
    /\ plan' = b.plan
    /\ escaped' = b.raised
    /\ pc' = IF b.raised = "" THEN "built" ELSE "raised"
    /\ UNCHANGED <<calls, runIntentRet, history, nextId, ncalls>>
    /\ UNCHANGED <<taskVars, storeVars, pureVars, guiVars>>

\* the effect of one simulate or execute call c on the store and the trace
Apply(c) ==
    /\ calls' = Append(calls, c)
    /\ history' = history \o c.rows
    /\ nextId' = nextId + Len(c.rows)
    /\ escaped' = c.raised

\* cli.py debug_intent, up to build_plan
DebugIntentStart ==
    \E parsed \in {None} \cup {Some(i) : i \in WorkflowIntents},
       detected \in DetectedDistros, override \in Overrides, real \in BOOLEAN :
        LET distro_id == IF override # None /\ The(override) # ""
                         THEN The(override) ELSE detected
        IN  Begin("debug_intent",
                  IF parsed = None THEN Raises("typer.Exit")
                  ELSE build_plan(The(parsed), Some(distro_id)),
                  real)

\* cli.py plan, up to build_plan
PlanStart ==
    \E chosen \in {None} \cup {Some(i) : i \in PlanFlagIntents},
       detected \in DetectedDistros, real \in BOOLEAN :
        Begin("plan",
              IF chosen = None THEN Raises("typer.Exit")
              ELSE build_plan(The(chosen), Some(detected)),
              real)

\* cli.py chat, up to build_plan inside run_intent
ChatStart ==
    \E decided \in {None} \cup {Some(i) : i \in WorkflowIntents},
       detected \in DetectedDistros, run_ \in BOOLEAN :
        Begin("chat",
              IF decided = None THEN Raises("typer.Exit")
              ELSE build_plan(The(decided), Some(detected)),
              run_)

\* planner.py run_intent called by an API caller, up to build_plan
RunIntentStart ==
    \E intent \in WorkflowIntents, distro_id \in RunIntentDistros, execute_real \in BOOLEAN :
        Begin("run_intent", build_plan(intent, distro_id), execute_real)

\* sim = simulate(plan) of debug_intent, plan and run_intent
SimulateStep ==
    /\ pc = "built"
    /\ \E o \in Outcomes, accept \in BOOLEAN, ts \in 0..MaxClock :
        LET c == simulate(The(plan), o, accept, ts, nextId)
        IN  /\ Apply(c)
            /\ pc' = IF c.raised = "" THEN "simulated" ELSE "raised"
    /\ UNCHANGED <<cmd, plan, runFlag, runIntentRet, ncalls>>
    /\ UNCHANGED <<taskVars, storeVars, pureVars, guiVars>>

\* the simulation result the entry point holds
SimOf(cs) == (CHOOSE i \in 1..Len(cs) : cs[i].fn = "simulate")

\* "if execute_real and plan.real_cmd" of run_intent (the variant drops
\* execute_real)
run_intent_executes_any(execute_real, p) == Truthy(p.real_cmd)
run_intent_executes(execute_real, p) == execute_real /\ Truthy(p.real_cmd)

\* execute_real as run_intent receives it: chat passes False
ExecuteRealArg == IF cmd = "chat" THEN FALSE ELSE runFlag

\* run_intent after simulate: no execution, return (sim, None)
RunIntentReturn ==
    /\ cmd \in {"run_intent", "chat"}
    /\ pc = "simulated"
    /\ ~run_intent_executes(ExecuteRealArg, The(plan))
    /\ runIntentRet' = Some([sim |-> calls[SimOf(calls)].ret, exe |-> None])
    /\ pc' = IF cmd = "chat" THEN "returned" ELSE "done"
    /\ UNCHANGED <<cmd, plan, runFlag, escaped, calls, history, nextId, ncalls>>
    /\ UNCHANGED <<taskVars, storeVars, pureVars, guiVars>>

\* run_intent after simulate: exe = execute(plan), return (sim, exe)
RunIntentExecute ==
    /\ cmd \in {"run_intent", "chat"}
    /\ pc = "simulated"
    /\ run_intent_executes(ExecuteRealArg, The(plan))
    /\ \E o \in Outcomes, accept \in BOOLEAN, ts \in 0..MaxClock :
        LET c == execute(The(plan), o, accept, ts, nextId)
        IN  /\ Apply(c)
            /\ runIntentRet' = IF c.raised = ""
                               THEN Some([sim |-> calls[SimOf(calls)].ret, exe |-> c.ret])
                               ELSE None
            /\ pc' = IF c.raised # "" THEN "raised"
                     ELSE IF cmd = "chat" THEN "returned" ELSE "done"
    /\ UNCHANGED <<cmd, plan, runFlag, ncalls>>
    /\ UNCHANGED <<taskVars, storeVars, pureVars, guiVars>>

\* "if execute_real and plan.real_cmd" of debug_intent, "if real and
\* plan_obj.real_cmd" of plan, "if run_: if sim_res.plan.real_cmd" of chat
\* (the variant drops the flag)
cli_gate_no_flag(flag, p) == Truthy(p.real_cmd)
cli_gate(flag, p) == flag /\ Truthy(p.real_cmd)

\* where the CLI command stands when it reaches that test
AtGate ==
    \/ cmd \in {"debug_intent", "plan"} /\ pc = "simulated"
    \/ cmd = "chat" /\ pc = "returned"

\* the test fails: "(Real execution skipped ...)"
CliSkip ==
    /\ AtGate
    /\ ~cli_gate(runFlag, The(plan))
    /\ pc' = "done"
    /\ UNCHANGED <<cmd, plan, runFlag, escaped, calls, runIntentRet, history, nextId, ncalls>>
    /\ UNCHANGED <<taskVars, storeVars, pureVars, guiVars>>

\* "if confirm(...)": the branch taken on confirm's answer
after_confirm(ok) == IF ok THEN "execute" ELSE "done"

\* the test holds: confirm("Execute real command? [Y/n]: ")
CliConfirm ==
    /\ AtGate
    /\ cli_gate(runFlag, The(plan))
    /\ \E answer \in Answers :
        LET ok == confirm(answer)
        IN  /\ calls' = Append(calls, ConfirmCall(The(plan), answer, ok))
            /\ pc' = after_confirm(ok)
    /\ UNCHANGED <<cmd, plan, runFlag, escaped, runIntentRet, history, nextId, ncalls>>
    /\ UNCHANGED <<taskVars, storeVars, pureVars, guiVars>>

\* res = execute(plan) of the CLI commands
CliExecute ==
    /\ cmd \in {"debug_intent", "plan", "chat"}
    /\ pc = "execute"
    /\ \E o \in Outcomes, accept \in BOOLEAN, ts \in 0..MaxClock :
        LET c == execute(The(plan), o, accept, ts, nextId)
        IN  /\ Apply(c)
            /\ pc' = IF c.raised = "" THEN "done" ELSE "raised"
    /\ UNCHANGED <<cmd, plan, runFlag, runIntentRet, ncalls>>
    /\ UNCHANGED <<taskVars, storeVars, pureVars, guiVars>>

\* an API caller (the tests, the GUI presenter) takes a Plan and calls
\* simulate and execute on it directly, in any order
ApiStart ==
    \E p \in ApiPlans :
        /\ cmd = "none"
        /\ cmd' = "api"
        /\ plan' = Some(p)
        /\ pc' = "api"
        /\ UNCHANGED <<runFlag, escaped, calls, runIntentRet, history, nextId, ncalls>>
        /\ UNCHANGED <<taskVars, storeVars, pureVars, guiVars>>

ApiSimulate ==
    /\ cmd = "api"
    /\ pc = "api"
    /\ ncalls < MaxCalls
    /\ \E o \in Outcomes, accept \in BOOLEAN, ts \in 0..MaxClock :
        LET c == simulate(The(plan), o, accept, ts, nextId)
        IN  /\ Apply(c)
            /\ pc' = IF c.raised = "" THEN "api" ELSE "raised"
    /\ ncalls' = ncalls + 1
    /\ UNCHANGED <<cmd, plan, runFlag, runIntentRet>>
    /\ UNCHANGED <<taskVars, storeVars, pureVars, guiVars>>

ApiExecute ==
    /\ cmd = "api"
    /\ pc = "api"
    /\ ncalls < MaxCalls
    /\ \E o \in Outcomes, accept \in BOOLEAN, ts \in 0..MaxClock :
        LET c == execute(The(plan), o, accept, ts, nextId)
        IN  /\ Apply(c)
            /\ pc' = IF c.raised = "" THEN "api" ELSE "raised"
    /\ ncalls' = ncalls + 1
    /\ UNCHANGED <<cmd, plan, runFlag, runIntentRet>>
    /\ UNCHANGED <<taskVars, storeVars, pureVars, guiVars>>

Next ==
    \/ DebugIntentStart
    \/ PlanStart
    \/ ChatStart
    \/ RunIntentStart
    \/ SimulateStep
    \/ RunIntentReturn
    \/ RunIntentExecute
    \/ CliSkip
    \/ CliConfirm
    \/ CliExecute
    \/ ApiStart
    \/ ApiSimulate
    \/ ApiExecute

Spec == Init /\ [][Next]_vars

----------------------------------------------------------------------------
(* Vocabulary of the properties *)

Idx == 1..Len(calls)
IsCli == cmd \in {"debug_intent", "plan", "chat"}
IsWorkflowCall(c) == c.fn \in {"simulate", "execute"}

\* the command of the plan that the call is about
CmdOf(c) == IF c.fn = "simulate" THEN c.plan.simulate_cmd ELSE c.plan.real_cmd

\* the call returned a result object
Returned(c) == c.raised = "" /\ c.ret # None

\* the exit code the call's ShellResult carries
ReturnCode(c) == The(The(c.ret).result).returncode

----------------------------------------------------------------------------
(* C1: in debug_intent, plan and chat, execute(plan) is called only if the  *)
(* run flag was given, plan.real_cmd is present, simulate(plan) has already *)
(* returned for the same plan and confirm() returned true after it; a      *)
(* confirm() that returns false, as it does on end-of-input, is never      *)
(* followed by execute.                                                    *)
C1_ExecuteGated ==
    IsCli =>
        /\ \A i \in Idx : calls[i].fn = "execute" =>
            /\ runFlag
            /\ Truthy(calls[i].plan.real_cmd)
            /\ calls[i].plan = The(plan)
            /\ \E j \in 1..(i - 1), k \in 1..(i - 1) :
                /\ j < k
                /\ calls[j].fn = "simulate"
                /\ calls[j].plan = calls[i].plan
                /\ Returned(calls[j])
                /\ calls[k].fn = "confirm"
                /\ calls[k].ok
        /\ \A k \in Idx : calls[k].fn = "confirm" =>
            /\ calls[k].answer = None => ~calls[k].ok
            /\ ~calls[k].ok => /\ pc = "done"
                               /\ \A i \in Idx : calls[i].fn # "execute"

C1_Witness ==
    /\ IsCli
    /\ pc = "done"
    /\ \E i \in Idx : calls[i].fn = "execute" /\ calls[i].shell # <<>>

----------------------------------------------------------------------------
(* C2 as stated: for a plan with both commands present, simulate invokes    *)
(* the Shell Runner exactly once, with simulate_cmd and never with         *)
(* real_cmd; execute invokes it exactly once, with real_cmd; the           *)
(* ShellResult's command is the command that was run.                      *)
BothPresent(p) == Truthy(p.simulate_cmd) /\ Truthy(p.real_cmd)

RunsExactly(c, argv) ==
    /\ c.shell = <<argv>>
    /\ Returned(c)
    /\ The(The(c.ret).result).command = argv

C2_Original ==
    \A i \in Idx : IsWorkflowCall(calls[i]) /\ BothPresent(calls[i].plan) =>
        LET c == calls[i]
        IN  /\ c.fn = "simulate" =>
                /\ RunsExactly(c, The(c.plan.simulate_cmd))
                /\ \A n \in 1..Len(c.shell) : c.shell[n] # The(c.plan.real_cmd)
            /\ c.fn = "execute" => RunsExactly(c, The(c.plan.real_cmd))

(* C2 amended: the same, except that simulate's one invocation is with      *)
(* real_cmd exactly when the plan's two commands are equal, as they are in *)
(* every SearchPackage plan of build_plan.                                 *)
C2_Amended ==
    \A i \in Idx : IsWorkflowCall(calls[i]) /\ BothPresent(calls[i].plan) =>
        LET c == calls[i]
        IN  /\ c.fn = "simulate" =>
                /\ RunsExactly(c, The(c.plan.simulate_cmd))
                /\ (\E n \in 1..Len(c.shell) : c.shell[n] = The(c.plan.real_cmd))
                     <=> (c.plan.simulate_cmd = c.plan.real_cmd)
            /\ c.fn = "execute" => RunsExactly(c, The(c.plan.real_cmd))

C2_Witness ==
    /\ Len(calls) >= 2
    /\ \E i, j \in Idx :
        /\ calls[i].fn = "simulate"
        /\ calls[j].fn = "execute"
        /\ BothPresent(calls[i].plan)
        /\ calls[i].plan.simulate_cmd # calls[i].plan.real_cmd
        /\ calls[i].shell # <<>>
        /\ calls[j].shell # <<>>

----------------------------------------------------------------------------
----------------------------------------------------------------------------
(* C4: a call whose command is absent (None, or the empty list the code     *)
(* treats alike) makes no Shell Runner invocation: simulate returns the    *)
(* summary "<nothing to simulate>", execute returns the summary            *)
(* "<no execution needed>" and no ShellResult.                             *)
C4_ShortCircuit ==
    \A i \in Idx : IsWorkflowCall(calls[i]) /\ ~Truthy(CmdOf(calls[i])) =>
        LET c == calls[i]
        IN  /\ c.shell = <<>>
            /\ Returned(c)
            /\ c.fn = "simulate" => The(c.ret).summary = "<nothing to simulate>"
            /\ c.fn = "execute" => /\ The(c.ret).summary = "<no execution needed>"
                                   /\ The(c.ret).result = None

C4_Witness ==
    \E i, j \in Idx :
        /\ calls[i].fn = "simulate" /\ ~Truthy(calls[i].plan.simulate_cmd)
        /\ calls[j].fn = "execute" /\ ~Truthy(calls[j].plan.real_cmd)

----------------------------------------------------------------------------
(* C5 as stated: after every call to simulate(plan) or execute(plan), for   *)
(* any plan, exactly one new OperationRecord has been appended to the      *)
(* history, provided the store accepts the write.                          *)
C5_Original ==
    \A i \in Idx : IsWorkflowCall(calls[i]) /\ calls[i].accept =>
        Len(calls[i].rows) = 1

\* the rows the calls so far have appended, in order
RECURSIVE RowsOf(_)
RowsOf(cs) == IF cs = <<>> THEN <<>> ELSE RowsOf(SubSeq(cs, 1, Len(cs) - 1)) \o cs[Len(cs)].rows

(* C5 amended: a call whose command is present and whose plan.description   *)
(* has a first word appends exactly one new OperationRecord when the store *)
(* accepts the write; a call whose command is absent, or whose description *)
(* is blank, appends none; the history holds exactly the rows so appended. *)
C5_Amended ==
    /\ \A i \in Idx : IsWorkflowCall(calls[i]) =>
        LET c == calls[i]
        IN  /\ (Truthy(CmdOf(c)) /\ Split(c.plan.description) # <<>> /\ c.accept)
                 => Len(c.rows) = 1
            /\ (~Truthy(CmdOf(c)) \/ Split(c.plan.description) = <<>> \/ ~c.accept)
                 => c.rows = <<>>
    /\ history = RowsOf(calls)
    /\ nextId = Len(history) + 1

C5_Witness ==
    \E i, j \in Idx :
        /\ IsWorkflowCall(calls[i]) /\ calls[i].accept /\ Len(calls[i].rows) = 1
        /\ IsWorkflowCall(calls[j]) /\ calls[j].accept /\ ~Truthy(CmdOf(calls[j]))
        /\ Len(history) = 1

----------------------------------------------------------------------------
(* C6 as stated: executing a plan whose real command exits nonzero, with    *)
(* any stderr, appends an OperationRecord with status "failed" and a       *)
(* non-null error_message (the store accepting the write).                 *)
FailedExecute(c) ==
    /\ c.fn = "execute"
    /\ Truthy(c.plan.real_cmd)
    /\ Returned(c)
    /\ ReturnCode(c) # 0

C6_Original ==
    \A i \in Idx : FailedExecute(calls[i]) /\ calls[i].rows # <<>> =>
        /\ calls[i].rows[1].status = "failed"
        /\ calls[i].rows[1].error_message # None

(* C6 amended: the record has status "failed"; its error_message is the     *)
(* first 500 characters of stderr when stderr is non-empty and null when   *)
(* stderr is empty.                                                        *)
C6_Amended ==
    \A i \in Idx : FailedExecute(calls[i]) /\ calls[i].rows # <<>> =>
        LET row    == calls[i].rows[1]
            stderr == The(The(calls[i].ret).result).stderr
        IN  /\ Len(calls[i].rows) = 1
            /\ row.status = "failed"
            /\ stderr # "" => row.error_message = Some(Prefix(stderr, ErrorLimit))
            /\ stderr = "" => row.error_message = None

C6_Witness ==
    \E i \in Idx :
        /\ FailedExecute(calls[i])
        /\ calls[i].rows # <<>>
        /\ calls[i].rows[1].error_message = None
        /\ calls[i].rows[1] = history[Len(history)]

----------------------------------------------------------------------------
(* C7: the status written is a function of the phase and the exit code:     *)
(* simulate writes "simulated" whatever the exit code; execute writes      *)
(* "success" if and only if the exit code is 0 and "failed" otherwise, a   *)
(* timeout and a spawn failure (exit code -1) included; error_message is   *)
(* null whenever the status is "success" or "simulated".                   *)
C7_StatusByPhaseAndCode ==
    \A i \in Idx : IsWorkflowCall(calls[i]) /\ calls[i].rows # <<>> =>
        LET c   == calls[i]
            row == c.rows[1]
        IN  /\ c.fn = "simulate" => row.status = "simulated"
            /\ c.fn = "execute" =>
                /\ row.status = "success" <=> ReturnCode(c) = 0
                /\ row.status = "failed" <=> ReturnCode(c) # 0
                /\ c.outcome.kind \in {"timeout", "oserror"} =>
                     ReturnCode(c) = -1 /\ row.status = "failed"
            /\ row.status \in {"success", "simulated"} => row.error_message = None

C7_Witness ==
    \E i, j \in Idx :
        /\ calls[i].fn = "simulate" /\ calls[i].rows # <<>> /\ ReturnCode(calls[i]) # 0
        /\ calls[j].fn = "execute" /\ calls[j].rows # <<>>
        /\ calls[j].rows[1].status = "success"
        /\ The(The(calls[j].ret).result).stderr # ""

----------------------------------------------------------------------------
(* C8: when the logging inside simulate or execute raises, the call still   *)
(* returns, and what it returns (plan, ShellResult, summary) is what the   *)
(* same call returns when the logging succeeds.                            *)
LoggingRaised(c) ==
    /\ IsWorkflowCall(c)
    /\ Truthy(CmdOf(c))
    /\ LogFailure(c.plan, c.accept) # ""

\* the same call with a store that accepts the row
WhenAccepted(c) ==
    IF c.fn = "simulate" THEN simulate(c.plan, c.outcome, TRUE, 0, 1)
    ELSE execute(c.plan, c.outcome, TRUE, 0, 1)

C8_LoggingFailureSwallowed ==
    \A i \in Idx : LoggingRaised(calls[i]) =>
        LET c == calls[i]
        IN  /\ Returned(c)
            /\ The(c.ret).plan = c.plan
            /\ The(c.ret).summary =
                 summarize_output(The(The(c.ret).result).stdout,
                                  The(The(c.ret).result).stderr, DefaultMaxLines)
            /\ Split(c.plan.description) # <<>> => c.ret = WhenAccepted(c).ret
            /\ c.rows = <<>>
            /\ escaped = ""

C8_Witness ==
    \E i, j \in Idx :
        /\ calls[i].fn = "simulate" /\ LoggingRaised(calls[i]) /\ ~calls[i].accept
        /\ calls[j].fn = "execute" /\ LoggingRaised(calls[j]) /\ ~calls[j].accept
        /\ Split(calls[i].plan.description) # <<>>
        /\ history = <<>>

----------------------------------------------------------------------------
(* C9: the Shell Runner never raises: a timeout gives returncode -1, empty  *)
(* stdout and a stderr that starts with "TIMEOUT:", a spawn failure gives  *)
(* returncode -1, empty stdout and a stderr that starts with "ERROR:";     *)
(* simulate and execute return a result object and never throw, for every *)
(* plan.                                                                   *)
C9_NeverThrows ==
    /\ \A i \in Idx : IsWorkflowCall(calls[i]) =>
        LET c == calls[i]
        IN  /\ Returned(c)
            /\ (Truthy(CmdOf(c)) /\ c.outcome.kind = "timeout") =>
                 LET res == The(The(c.ret).result)
                 IN  /\ res.returncode = -1
                     /\ res.stdout = ""
                     /\ StartsWith(res.stderr, "TIMEOUT:")
            /\ (Truthy(CmdOf(c)) /\ c.outcome.kind = "oserror") =>
                 LET res == The(The(c.ret).result)
                 IN  /\ res.returncode = -1
                     /\ res.stdout = ""
                     /\ StartsWith(res.stderr, "ERROR:")
    /\ calls # <<>> => escaped = "" /\ pc # "raised"

C9_Witness ==
    \E i, j \in Idx :
        /\ calls[i].fn = "simulate" /\ Truthy(CmdOf(calls[i]))
        /\ calls[i].outcome.kind = "timeout"
        /\ calls[j].fn = "execute" /\ Truthy(CmdOf(calls[j]))
        /\ calls[j].outcome.kind = "oserror"
        /\ Returned(calls[j])

----------------------------------------------------------------------------
(* C10 as stated: when a plan is run through the workflow (simulate, then   *)
(* execute of the same plan), a "success"/"failed" row in the history has  *)
(* an earlier "simulated" row of that operation: one with a smaller id and *)
(* a timestamp that is not later.                                          *)
IsWorkflowRun == cmd \in {"debug_intent", "plan", "chat", "run_intent"}

C10_Original ==
    IsWorkflowRun =>
        \A j \in Idx : calls[j].fn = "execute" /\ calls[j].rows # <<>> =>
            \E i \in 1..(j - 1) :
                /\ calls[i].fn = "simulate"
                /\ calls[i].plan = calls[j].plan
                /\ calls[i].rows # <<>>
                /\ calls[i].rows[1].status = "simulated"
                /\ calls[i].rows[1].id < calls[j].rows[1].id
                /\ calls[i].rows[1].timestamp <= calls[j].rows[1].timestamp

(* C10 amended: the simulate call of the operation precedes its execute     *)
(* call, and whenever the store accepted the simulate row, that row is in  *)
(* the history before the "success"/"failed" row and has the smaller id.   *)
(* A simulate row the store refused is missing (the failure is swallowed), *)
(* and the timestamps, read from the wall clock, need not be ordered.      *)
C10_Amended ==
    IsWorkflowRun =>
        \A j \in Idx : calls[j].fn = "execute" /\ calls[j].rows # <<>> =>
            /\ calls[j].rows[1].status \in {"success", "failed"}
            /\ history[Len(history)] = calls[j].rows[1]
            /\ \E i \in 1..(j - 1) :
                /\ calls[i].fn = "simulate"
                /\ calls[i].plan = calls[j].plan
                /\ Returned(calls[i])
                /\ calls[i].accept =>
                    /\ Len(history) = 2
                    /\ history[1] = calls[i].rows[1]
                    /\ history[1].status = "simulated"
                    /\ history[1].id < history[2].id

C10_Witness ==
    /\ IsWorkflowRun
    /\ Len(history) = 2
    /\ history[1].status = "simulated"
    /\ history[2].status = "failed"
    /\ history[1].timestamp > history[2].timestamp

----------------------------------------------------------------------------
(* gui/services.py: one BackgroundTask, its worker thread and its caller *)

\* times the function of the task polls the token
MaxPolls == 1
\* calls the owner of the task makes on the token (cancel, is_cancelled)
MaxCallerOps == 2

\* the tasks a caller constructs
Tasks ==
    {BackgroundTask("work", d, e, None) : d \in BOOLEAN, e \in BOOLEAN}
    \cup {BackgroundTask("execute_plan", TRUE, TRUE, Some(p)) : p \in ApiPlans}

\* the exceptions a function or a callback raises
Exceptions == {"ValueError", "CancellationError"}

\* __init__: the caller constructs the task
TaskNew ==
    /\ caller.pc = "ready" /\ worker.pc = "unstarted" /\ events = <<>>
    /\ \E t \in Tasks : task' = t
    /\ events' = <<Event("caller", "new", "", FALSE)>>
    /\ UNCHANGED <<token, worker, caller, workflowVars, history, nextId, storeVars, pureVars, guiVars>>

Constructed == events # <<>>

\* start(): the thread is created and started on _run
TaskStart ==
    /\ Constructed /\ caller.pc = "ready" /\ worker.pc = "unstarted"
    /\ worker' = Thread("func")
    /\ events' = Append(events, Event("caller", "start", "", FALSE))
    /\ UNCHANGED <<token, task, caller, workflowVars, history, nextId, storeVars, pureVars, guiVars>>

\* "with self._lock" of a token method entered by thread who
Acquire(who) ==
    /\ token.lock = "free"
    /\ token' = [token EXCEPT !.lock = who]

\* cancel(), called by the owner through BackgroundTask.cancel or on the token
CancelAcquire ==
    /\ Constructed /\ caller.pc = "ready" /\ caller.n < MaxCallerOps
    /\ Acquire("caller")
    /\ caller' = [caller EXCEPT !.pc = "cancel", !.n = @ + 1]
    /\ UNCHANGED <<task, worker, events, workflowVars, history, nextId, storeVars, pureVars, guiVars>>

\* cancel() sets the flag, leaves the lock and returns
CancelWrite ==
    /\ caller.pc = "cancel"
    /\ token' = [cancelled |-> cancel_write(token.cancelled), lock |-> "free"]
    /\ caller' = [caller EXCEPT !.pc = "ready"]
    /\ events' = Append(events, Event("caller", "cancel", "", token'.cancelled))
    /\ UNCHANGED <<task, worker, workflowVars, history, nextId, storeVars, pureVars, guiVars>>

\* is_cancelled(), called by the owner
CallerIsCancelledAcquire ==
    /\ Constructed /\ caller.pc = "ready" /\ caller.n < MaxCallerOps
    /\ Acquire("caller")
    /\ caller' = [caller EXCEPT !.pc = "is_cancelled", !.n = @ + 1]
    /\ UNCHANGED <<task, worker, events, workflowVars, history, nextId, storeVars, pureVars, guiVars>>

CallerIsCancelledRead ==
    /\ caller.pc = "is_cancelled"
    /\ token' = [token EXCEPT !.lock = "free"]
    /\ caller' = [caller EXCEPT !.pc = "ready"]
    /\ events' = Append(events, Event("caller", "is_cancelled", "", token.cancelled))
    /\ UNCHANGED <<task, worker, workflowVars, history, nextId, storeVars, pureVars, guiVars>>

\* where _run goes when exc is raised inside its try block
Handle(exc) ==
    IF except_clause(exc) = "pass" THEN Thread("finished")
    ELSE [pc |-> "raised", val |-> exc, n |-> worker.n]

\* func polls the token: cancel_token.check_cancelled() enters is_cancelled
FuncPollAcquire ==
    /\ worker.pc = "func" /\ task.func = "work" /\ worker.n < MaxPolls
    /\ Acquire("worker")
    /\ worker' = [worker EXCEPT !.pc = "poll", !.n = @ + 1]
    /\ UNCHANGED <<task, caller, events, workflowVars, history, nextId, storeVars, pureVars, guiVars>>

\* check_cancelled reads the flag and raises CancellationError on True,
\* which func lets propagate to _run
FuncPollRead ==
    /\ worker.pc = "poll"
    /\ token' = [token EXCEPT !.lock = "free"]
    /\ LET raises == check_cancelled_raises(token.cancelled)
           e == Event("worker", "check_cancelled", "", raises)
       IN  IF raises
           THEN /\ worker' = Handle("CancellationError")
                /\ events' = events \o <<e, Event("worker", "func_raise",
                                                  "CancellationError", FALSE)>>
           ELSE /\ worker' = [worker EXCEPT !.pc = "func"]
                /\ events' = Append(events, e)
    /\ UNCHANGED <<task, caller, workflowVars, history, nextId, storeVars, pureVars, guiVars>>

\* "result = self.func(*args, **kwargs)": func returns
FuncReturn ==
    /\ worker.pc = "func" /\ task.func = "work"
    /\ worker' = [worker EXCEPT !.pc = "returned", !.val = "result"]
    /\ events' = Append(events, Event("worker", "func_return", "result", FALSE))
    /\ UNCHANGED <<token, task, caller, workflowVars, history, nextId, storeVars, pureVars, guiVars>>

\* func raises
FuncRaise ==
    /\ worker.pc = "func" /\ task.func = "work"
    /\ \E exc \in Exceptions :
        /\ worker' = Handle(exc)
        /\ events' = Append(events, Event("worker", "func_raise", exc, FALSE))
    /\ UNCHANGED <<token, task, caller, workflowVars, history, nextId, storeVars, pureVars, guiVars>>

\* the row an execute call logged, as an event
RowEvents(c) ==
    [i \in 1..Len(c.rows) |-> Event("worker", "row", c.rows[i].status, FALSE)]

\* func is the task of _execute_real_command: presenter.execute_plan(plan)
\* calls execute(plan), which runs the command, logs the row and returns
FuncExecutePlan ==
    /\ worker.pc = "func" /\ task.func = "execute_plan"
    /\ \E o \in Outcomes, accept \in BOOLEAN, ts \in 0..MaxClock :
        LET c == execute(The(task.plan), o, accept, ts, nextId)
        IN  /\ history' = history \o c.rows
            /\ nextId' = nextId + Len(c.rows)
            /\ IF c.raised = ""
               THEN /\ worker' = [worker EXCEPT !.pc = "returned", !.val = "result"]
                    /\ events' = events \o RowEvents(c)
                                 \o <<Event("worker", "func_return", "result", FALSE)>>
               ELSE /\ worker' = Handle(c.raised)
                    /\ events' = events \o RowEvents(c)
                                 \o <<Event("worker", "func_raise", c.raised, FALSE)>>
    /\ UNCHANGED <<token, task, caller, workflowVars, storeVars, pureVars, guiVars>>

\* "if self.on_done and ...": without on_done the test is over, with it
\* the worker enters is_cancelled
DoneTest ==
    /\ worker.pc = "returned"
    /\ IF task.on_done
       THEN Acquire("worker") /\ worker' = [worker EXCEPT !.pc = "done_test"]
       ELSE worker' = Thread("finished") /\ UNCHANGED token
    /\ UNCHANGED <<task, caller, events, workflowVars, history, nextId, storeVars, pureVars, guiVars>>

\* "... and not self.token.is_cancelled()": the flag is read and the lock left
DoneRead ==
    /\ worker.pc = "done_test"
    /\ token' = [token EXCEPT !.lock = "free"]
    /\ worker' = IF on_done_guard(task.on_done, token.cancelled)
                 THEN [worker EXCEPT !.pc = "on_done"]
                 ELSE Thread("finished")
    /\ events' = Append(events, Event("worker", "is_cancelled", "", token.cancelled))
    /\ UNCHANGED <<task, caller, workflowVars, history, nextId, storeVars, pureVars, guiVars>>

\* "self.on_done(result)": the callback is invoked; it returns or raises,
\* still inside the try block
CallOnDone ==
    /\ worker.pc = "on_done"
    /\ events' = Append(events, Event("worker", "on_done", worker.val, FALSE))
    /\ \/ worker' = Thread("finished")
       \/ \E exc \in Exceptions : worker' = Handle(exc)
    /\ UNCHANGED <<token, task, caller, workflowVars, history, nextId, storeVars, pureVars, guiVars>>

\* "if self.on_error and ..." of the except Exception clause
ErrorTest ==
    /\ worker.pc = "raised"
    /\ IF task.on_error
       THEN Acquire("worker") /\ worker' = [worker EXCEPT !.pc = "error_test"]
       ELSE worker' = Thread("finished") /\ UNCHANGED token
    /\ UNCHANGED <<task, caller, events, workflowVars, history, nextId, storeVars, pureVars, guiVars>>

ErrorRead ==
    /\ worker.pc = "error_test"
    /\ token' = [token EXCEPT !.lock = "free"]
    /\ worker' = IF on_error_guard(task.on_error, token.cancelled)
                 THEN [worker EXCEPT !.pc = "on_error"]
                 ELSE Thread("finished")
    /\ events' = Append(events, Event("worker", "is_cancelled", "", token.cancelled))
    /\ UNCHANGED <<task, caller, workflowVars, history, nextId, storeVars, pureVars, guiVars>>

\* "self.on_error(e)": the callback is invoked; an exception it raises is
\* raised inside the except clause and leaves _run
CallOnError ==
    /\ worker.pc = "on_error"
    /\ events' = Append(events, Event("worker", "on_error", worker.val, FALSE))
    /\ \/ worker' = Thread("finished")
       \/ worker' = Thread("died")
    /\ UNCHANGED <<token, task, caller, workflowVars, history, nextId, storeVars, pureVars, guiVars>>

TaskNext ==
    \/ TaskNew
    \/ TaskStart
    \/ CancelAcquire
    \/ CancelWrite
    \/ CallerIsCancelledAcquire
    \/ CallerIsCancelledRead
    \/ FuncPollAcquire
    \/ FuncPollRead
    \/ FuncReturn
    \/ FuncRaise
    \/ FuncExecutePlan
    \/ DoneTest
    \/ DoneRead
    \/ CallOnDone
    \/ ErrorTest
    \/ ErrorRead
    \/ CallOnError

TaskSpec == Init /\ [][TaskNext]_vars

\* is_alive(): the thread exists and has not left _run (the variant only
\* tests that the thread exists)
is_alive_started == worker.pc # "unstarted"
is_alive == worker.pc # "unstarted" /\ worker.pc \notin {"finished", "died"}

\* the steps of the worker thread around func, and the steps by which the
\* caller leaves the "with self._lock" block of a token method it entered
WorkerStep ==
    \/ FuncPollAcquire \/ FuncPollRead \/ FuncReturn \/ FuncRaise
    \/ DoneTest \/ DoneRead \/ CallOnDone \/ ErrorTest \/ ErrorRead \/ CallOnError
CallerLeavesLock == CancelWrite \/ CallerIsCancelledRead
\* what a FuncExecutePlan step does to the worker: execute_plan returns
\* or raises
ExecutePlanEnds ==
    /\ worker.pc = "func" /\ task.func = "execute_plan"
    /\ worker' \in {[worker EXCEPT !.pc = "returned", !.val = "result"]}
                   \cup {Handle(exc) : exc \in Exceptions}

\* the scheduler runs a thread that can take a step, func and the callbacks
\* return or raise, and a token method that holds the lock finishes
TaskFairSpec ==
    /\ TaskSpec
    /\ WF_vars(WorkerStep) /\ WF_worker(ExecutePlanEnds) /\ WF_vars(CallerLeavesLock)

----------------------------------------------------------------------------
(* Properties of the BackgroundTask and its token *)

EIdx == 1..Len(events)
\* the positions in the trace where `what` happened
Happened(what) == {i \in EIdx : events[i].what = what}
\* the callback invocations
Callbacks == Happened("on_done") \cup Happened("on_error")
\* func returned or raised
FuncEnded == Happened("func_return") \cup Happened("func_raise")
\* the cancel() calls that returned on a started task while func was running
CancelledMidRun ==
    {j \in Happened("cancel") :
        /\ \E st \in Happened("start") : st < j
        /\ \A f \in FuncEnded : j < f}
\* _run is over
RunOver == worker.pc \in {"finished", "died"}

\* C11: when cancel() returned on a started task before func returned or
\* raised, neither on_done nor on_error is invoked in that run, whatever
\* func does afterwards (return, raise an exception, raise
\* CancellationError).
C11_CancelMidRunSuppresses ==
    CancelledMidRun # {} => Callbacks = {}

\* a run cancelled while func was running, whose func then returned to a
\* task that has an on_done callback, and which is over
C11_Witness ==
    /\ CancelledMidRun # {}
    /\ Happened("func_return") # {}
    /\ task.on_done
    /\ RunOver

\* C12: no callback invocation starts after cancel() has returned: every
\* on_done and on_error invocation precedes every returned cancel().
C12_Original ==
    \A i \in Callbacks : \A j \in Happened("cancel") : i < j

\* C13: in a run that is never cancelled and is over, a func that returned
\* v had on_done invoked exactly once, with v, and on_error not at all; a
\* func that raised an exception other than CancellationError had on_error
\* invoked exactly once, with it, and on_done not at all; never both.
C13_Original ==
    (RunOver /\ Happened("cancel") = {}) =>
        /\ \A f \in Happened("func_return") :
              task.on_done =>
                  /\ Cardinality(Happened("on_done")) = 1
                  /\ \A i \in Happened("on_done") : events[i].val = events[f].val
                  /\ (task.on_error => Happened("on_error") = {})
        /\ \A f \in Happened("func_raise") :
              (task.on_error /\ events[f].val # "CancellationError") =>
                  /\ Cardinality(Happened("on_error")) = 1
                  /\ \A i \in Happened("on_error") : events[i].val = events[f].val
                  /\ Happened("on_done") = {}
        /\ ~(Happened("on_done") # {} /\ Happened("on_error") # {})

\* C14: the token starts not cancelled and a cancel() is never undone: the
\* flag is set exactly when some cancel() has returned, every is_cancelled()
\* of either thread returns True exactly when a cancel() returned before
\* its read, and check_cancelled() raises exactly then.
C14_TokenMonotonic ==
    /\ token.cancelled <=> Happened("cancel") # {}
    /\ \A i \in Happened("is_cancelled") \cup Happened("check_cancelled") :
          events[i].flag <=> \E j \in Happened("cancel") : j < i

\* cancel() returned twice, a later is_cancelled() of the worker returned
\* True, and before the first cancel() a check_cancelled() did not raise
C14_Witness ==
    /\ Cardinality(Happened("cancel")) = 2
    /\ \E i \in Happened("is_cancelled") : events[i].flag /\ events[i].who = "worker"
    /\ \E i \in Happened("check_cancelled") : ~events[i].flag

\* C15: a run of execute_plan whose task was cancelled before the command
\* was run is recorded, if at all, with status "cancelled": no row of such
\* a run has status "failed" or "success".
C15_Original ==
    \A j \in CancelledMidRun : \A r \in Happened("row") :
        j < r => events[r].val = "cancelled"

----------------------------------------------------------------------------
(* tinyllamax/core/history.py: the OperationHistory store *)

Digits == "0123456789"

\* the characters of an ISO timestamp in code-point order
IsoChars == "-.0123456789:T"

CharRank(c) == CHOOSE i \in 1..Len(IsoChars) : CharAt(IsoChars, i) = c

\* a < b for two TEXT values under SQLite's BINARY collation (memcmp)
RECURSIVE TextLess(_, _)
TextLess(a, b) ==
    IF b = "" THEN FALSE
    ELSE IF a = "" THEN TRUE
    ELSE IF CharAt(a, 1) # CharAt(b, 1)
         THEN CharRank(CharAt(a, 1)) < CharRank(CharAt(b, 1))
         ELSE TextLess(SubSeq(a, 2, Len(a)), SubSeq(b, 2, Len(b)))

\* record.timestamp.isoformat() of the naive datetime at second ts of one
\* minute
isoformat(ts) == "2024-01-01T00:00:0" \o CharAt(Digits, ts + 1)

\* datetime.fromisoformat(text), as the second of that minute
fromisoformat(text) ==
    (CHOOSE i \in 1..Len(Digits) : CharAt(Digits, i) = CharAt(text, Len(text))) - 1

\* the row "INSERT INTO operations" stores for record: the timestamp as
\* TEXT, the id assigned by the table (record.id is not inserted)
Row(record, id) ==
    [id |-> id, timestamp |-> isoformat(record.timestamp),
     intent_type |-> record.intent_type, command |-> record.command,
     status |-> record.status, output_summary |-> record.output_summary,
     error_message |-> record.error_message]

\* _row_to_record (output_summary is never NULL in a row add wrote, so
\* "or ''" leaves it as it is)
row_to_record(row) ==
    OperationRecord(row.id, fromisoformat(row.timestamp), row.intent_type,
                    row.command, row.status, row.output_summary, row.error_message)

\* the operations table holding the records of h
Table(h) == [i \in 1..Len(h) |-> Row(h[i], h[i].id)]

\* cursor.lastrowid of add: AUTOINCREMENT gives one more than the largest
\* id the table ever held (the variant is a plain INTEGER PRIMARY KEY: one
\* more than the largest id it holds now)
lastrowid_reuses(h, next) ==
    IF h = <<>> THEN 1
    ELSE (CHOOSE m \in {h[i].id : i \in 1..Len(h)} :
             \A i \in 1..Len(h) : h[i].id <= m) + 1
lastrowid(h, next) == next

\* add(record): the records held afterwards and the id returned
add(h, next, record) ==
    LET id == lastrowid(h, next)
    IN  [history |-> Append(h, row_to_record(Row(record, id))), ret |-> id]

Orderings(n) == {f \in [1..n -> 1..n] : \A i, j \in 1..n : f[i] = f[j] => i = j}

\* ascending order (the variant of the ORDER BY below)
OrderByTimestampAsc(rows) ==
    {[i \in 1..Len(rows) |-> rows[f[i]]] :
        f \in {g \in Orderings(Len(rows)) :
                \A i, j \in 1..Len(rows) :
                    i < j => ~TextLess(rows[g[j]].timestamp, rows[g[i]].timestamp)}}

\* "ORDER BY timestamp DESC": the orders the query may return the rows in;
\* SQLite leaves the order of rows with equal keys undefined
OrderByTimestampDesc(rows) ==
    {[i \in 1..Len(rows) |-> rows[f[i]]] :
        f \in {g \in Orderings(Len(rows)) :
                \A i, j \in 1..Len(rows) :
                    i < j => ~TextLess(rows[g[i]].timestamp, rows[g[j]].timestamp)}}

\* a LIMIT that is not applied
LimitAll(s, n) == s
\* "LIMIT ?": the first n rows; a negative LIMIT is no limit in SQLite
Limit(s, n) == IF n < 0 \/ n >= Len(s) THEN s ELSE SubSeq(s, 1, n)

\* fetchall() through _row_to_record
Records(rows) == [i \in 1..Len(rows) |-> row_to_record(rows[i])]

\* get_recent(limit): the lists it may return
get_recent(h, limit) ==
    {Records(Limit(s, limit)) : s \in OrderByTimestampDesc(Table(h))}

\* "column = ?" on a TEXT column: BINARY collation, the texts are the same
\* character by character (the variant compares without regard to case)
where_equals_nocase(text, value) == ToLower(text) = ToLower(value)
where_equals(text, value) == text = value

\* get_by_intent(intent_type, limit): the lists it may return
get_by_intent(h, intent_type, limit) ==
    LET hit(row) == where_equals(row.intent_type, intent_type)
    IN  {Records(Limit(s, limit)) : s \in OrderByTimestampDesc(SelectSeq(Table(h), hit))}

\* get_by_status(status, limit): the lists it may return
get_by_status(h, status, limit) ==
    LET hit(row) == where_equals(row.status, status)
    IN  {Records(Limit(s, limit)) : s \in OrderByTimestampDesc(SelectSeq(Table(h), hit))}

\* text LIKE pattern of SQLite: % matches any run of characters, _ any one
\* character, and ASCII letters match without regard to case
RECURSIVE Like(_, _)
Like(text, pattern) ==
    IF pattern = "" THEN text = ""
    ELSE LET c == CharAt(pattern, 1)
             rest == SubSeq(pattern, 2, Len(pattern))
             tail == SubSeq(text, 2, Len(text))
         IN  IF c = "%"
             THEN Like(text, rest) \/ (text # "" /\ Like(tail, pattern))
             ELSE IF c = "_"
             THEN text # "" /\ Like(tail, rest)
             ELSE /\ text # ""
                  /\ LowerChar(CharAt(text, 1)) = LowerChar(c)
                  /\ Like(tail, rest)

\* get_similar_failures(command_pattern, limit): the lists it may return
get_similar_failures(h, command_pattern, limit) ==
    LET hit(row) == /\ row.status = "failed"
                    /\ Like(row.command, "%" \o command_pattern \o "%")
    IN  {Records(Limit(s, limit)) : s \in OrderByTimestampDesc(SelectSeq(Table(h), hit))}

\* "if intent_type:" of get_stats: None and "" select every row (the
\* variant takes "" as a filter)
stats_filtered_empty(intent_type) == intent_type # None
stats_filtered(intent_type) == intent_type # None /\ The(intent_type) # ""

\* the loop of get_stats over the (status, count) rows of GROUP BY status
RECURSIVE StatsLoop(_, _, _)
StatsLoop(groups, rows, stats) ==
    IF groups = {} THEN stats
    ELSE LET status == CHOOSE g \in groups : TRUE
             count == Len(SelectSeq(rows, LAMBDA r : r.status = status))
             added == [stats EXCEPT !.total = @ + count]
         IN  StatsLoop(groups \ {status}, rows,
                       IF status \in DOMAIN added
                       THEN [added EXCEPT ![status] = count]
                       ELSE added)

\* get_stats(intent_type)
get_stats(h, intent_type) ==
    LET rows == IF stats_filtered(intent_type)
                THEN SelectSeq(Table(h), LAMBDA r : r.intent_type = The(intent_type))
                ELSE Table(h)
    IN  StatsLoop({rows[i].status : i \in 1..Len(rows)}, rows, NoStats)

\* cleanup_old(keep_count): the outcomes it may have: the records kept (the
\* ids of the inner SELECT) and cursor.rowcount
cleanup_old(h, keep_count) ==
    {LET keep == {s[i].id : i \in 1..Len(s)}
         kept == SelectSeq(h, LAMBDA r : r.id \in keep)
     IN  [history |-> kept, ret |-> Len(h) - Len(kept)] :
        s \in {Limit(o, keep_count) : o \in OrderByTimestampDesc(Table(h))}}

----------------------------------------------------------------------------
(* The store and its callers *)

\* add calls made on one store
MaxAdds == 2

\* the records callers add: a failed install, a simulated update, and a
\* record whose status is none of the four documented ones (status is a
\* plain str)
StoreRecords ==
    {OperationRecord(0, ts, r[1], r[2], r[3], r[4], r[5]) :
        ts \in 0..MaxClock,
        r \in {<<"InstallPackage", "apt install vim", "failed", "", Some("E: no vim")>>,
               <<"UpdateSystem", "pacman -Sy", "simulated", "done", None>>,
               <<"InstallPackage", "apt install vim", "running", "", None>>}}

\* the arguments callers pass: limit of get_recent, keep_count of
\* cleanup_old, command_pattern and limit of get_similar_failures,
\* intent_type of get_stats
StoreArgs ==
    [limit |-> {-1, 0, 1, MaxAdds},
     keep_count |-> {0, 1, MaxAdds},
     command_pattern |-> {"apt", "APT", "v_m"},
     failure_limit |-> {1, MaxAdds},
     intent_type |-> {None, Some(""), Some("InstallPackage")},
     by_intent |-> {"InstallPackage", "installpackage", "UpdateSystem"},
     by_status |-> {"failed", "FAILED", "running"}]

\* the store is used on its own, not through a workflow
StoreOnly == cmd = "none" /\ events = <<>>

StoreAdd ==
    /\ StoreOnly
    /\ Len(ops.ids) < MaxAdds
    /\ \E record \in StoreRecords :
        LET r == add(history, nextId, record)
        IN  /\ history' = r.history
            /\ nextId' = nextId + 1
            /\ ops' = [call |-> StoreCall("add", 0, "", None, history,
                                          <<record>>, r.ret, NoStats),
                       ids |-> Append(ops.ids, r.ret)]
    /\ UNCHANGED <<workflowVars, taskVars, schema, writers, pureVars, guiVars>>

StoreCleanupOld ==
    /\ StoreOnly
    /\ \E keep_count \in StoreArgs.keep_count : \E r \in cleanup_old(history, keep_count) :
        /\ history' = r.history
        /\ ops' = [ops EXCEPT !.call = StoreCall("cleanup_old", keep_count, "", None,
                                                  history, <<>>, r.ret, NoStats)]
    /\ UNCHANGED <<workflowVars, taskVars, schema, writers, pureVars, guiVars, nextId>>

StoreGetRecent ==
    /\ StoreOnly
    /\ \E limit \in StoreArgs.limit : \E rows \in get_recent(history, limit) :
        ops' = [ops EXCEPT !.call = StoreCall("get_recent", limit, "", None,
                                               history, rows, 0, NoStats)]
    /\ UNCHANGED <<workflowVars, taskVars, schema, writers, pureVars, guiVars, history, nextId>>

StoreGetSimilarFailures ==
    /\ StoreOnly
    /\ \E pattern \in StoreArgs.command_pattern, limit \in StoreArgs.failure_limit :
       \E rows \in get_similar_failures(history, pattern, limit) :
        ops' = [ops EXCEPT !.call = StoreCall("get_similar_failures", limit, pattern,
                                               None, history, rows, 0, NoStats)]
    /\ UNCHANGED <<workflowVars, taskVars, schema, writers, pureVars, guiVars, history, nextId>>

StoreGetStats ==
    /\ StoreOnly
    /\ \E intent_type \in StoreArgs.intent_type :
        ops' = [ops EXCEPT !.call = StoreCall("get_stats", 0, "", intent_type, history,
                                               <<>>, 0, get_stats(history, intent_type))]
    /\ UNCHANGED <<workflowVars, taskVars, schema, writers, pureVars, guiVars, history, nextId>>

StoreGetByIntent ==
    /\ StoreOnly
    /\ \E intent_type \in StoreArgs.by_intent, limit \in StoreArgs.limit :
       \E rows \in get_by_intent(history, intent_type, limit) :
        ops' = [ops EXCEPT !.call = StoreCall("get_by_intent", limit, intent_type,
                                               None, history, rows, 0, NoStats)]
    /\ UNCHANGED <<workflowVars, taskVars, schema, writers, pureVars, guiVars, history, nextId>>

StoreGetByStatus ==
    /\ StoreOnly
    /\ \E status \in StoreArgs.by_status, limit \in StoreArgs.limit :
       \E rows \in get_by_status(history, status, limit) :
        ops' = [ops EXCEPT !.call = StoreCall("get_by_status", limit, status,
                                               None, history, rows, 0, NoStats)]
    /\ UNCHANGED <<workflowVars, taskVars, schema, writers, pureVars, guiVars, history, nextId>>

\* OperationHistory(db_path) is constructed again on the same file
StoreReopen ==
    /\ StoreOnly
    /\ LET db == init_db(Database(schema.table, history, nextId, schema.indexes))
       IN  /\ history' = db.rows
           /\ nextId' = db.seq
           /\ schema' = [table |-> db.table, indexes |-> db.indexes]
           /\ ops' = [ops EXCEPT !.call = StoreCall("init", 0, "", None, history,
                                                    <<>>, nextId, NoStats)]
    /\ UNCHANGED <<workflowVars, taskVars, writers, pureVars, guiVars>>

StoreNext ==
    \/ StoreReopen
    \/ StoreAdd
    \/ StoreCleanupOld
    \/ StoreGetRecent
    \/ StoreGetSimilarFailures
    \/ StoreGetStats

StoreSpec == Init /\ [][StoreNext]_vars

\* the filtered queries on the stores that add, cleanup_old and a reopening
\* produce (the other queries leave the store as it is)
QueryNext ==
    \/ StoreReopen
    \/ StoreAdd
    \/ StoreCleanupOld
    \/ StoreGetByIntent
    \/ StoreGetByStatus

QuerySpec == Init /\ [][QueryNext]_vars

----------------------------------------------------------------------------
(* Threads that add at the same time *)

\* "INSERT INTO operations" of one connection goes ahead when no other
\* connection holds the write lock of the database file; otherwise it waits
\* (the variant lets it go ahead at once)
write_lock_ignored(lock) == TRUE
write_lock_free(lock) == lock = 0

\* a thread enters add (log_operation has built its record and calls
\* get_history().add): sqlite3.connect opens a connection of its own
WriterConnect(w) ==
    /\ StoreOnly
    /\ writers.at[w].pc = "idle"
    /\ \E record \in StoreRecords :
        writers' = [writers EXCEPT !.at[w] = [pc |-> "connected",
                                               record |-> Some(record), id |-> 0]]
    /\ UNCHANGED <<workflowVars, taskVars, ops, schema, pureVars, guiVars, history, nextId>>

\* cursor.execute("INSERT ..."): the connection takes the write lock and
\* the row gets its id; the row is in the transaction of this connection
WriterInsert(w) ==
    /\ StoreOnly
    /\ writers.at[w].pc = "connected"
    /\ write_lock_free(writers.lock)
    /\ writers' = [writers EXCEPT !.lock = w,
                                   !.at[w].pc = "inserted",
                                   !.at[w].id = lastrowid(history, nextId)]
    /\ UNCHANGED <<workflowVars, taskVars, ops, schema, pureVars, guiVars, history, nextId>>

\* conn.commit() and "return cursor.lastrowid": the row is in the file, the
\* write lock is released
WriterCommit(w) ==
    /\ StoreOnly
    /\ writers.at[w].pc = "inserted"
    /\ history' = Append(history,
                         row_to_record(Row(The(writers.at[w].record), writers.at[w].id)))
    /\ nextId' = writers.at[w].id + 1
    /\ writers' = [writers EXCEPT !.lock = IF @ = w THEN 0 ELSE @,
                                   !.at[w].pc = "returned"]
    /\ UNCHANGED <<workflowVars, taskVars, ops, schema, pureVars, guiVars>>

WriterNext ==
    \E w \in 1..MaxWriters : WriterConnect(w) \/ WriterInsert(w) \/ WriterCommit(w)

WriterSpec == Init /\ [][WriterNext]_vars

----------------------------------------------------------------------------
(* Properties of the store *)

\* the call made last, the records held before it, their number
LastCall == ops.call
Before == ops.call.before
Total == Len(ops.call.before)
Min(a, b) == IF a < b THEN a ELSE b
\* the records of a list, as a set
Range(s) == {s[i] : i \in 1..Len(s)}
\* the number of records of h that satisfy P
CountOf(h, P(_)) == Cardinality({i \in 1..Len(h) : P(h[i])})
\* text contains part as a literal substring
Contains(text, part) ==
    \E i \in 1..(Len(text) + 1) :
        i + Len(part) - 1 <= Len(text) /\ SubSeq(text, i, i + Len(part) - 1) = part
\* the records were added with timestamps that grow strictly
StrictlyClocked(h) == \A i, j \in 1..Len(h) : i < j => h[i].timestamp < h[j].timestamp
\* the last n records of h, most recently added first
NewestFirst(h, n) == [i \in 1..n |-> h[Len(h) + 1 - i]]

\* C16: get_recent(n) returns at most n records (n >= 0), in strictly
\* descending order of timestamp, the most recently added first: the
\* result is the reverse of the last records added.
C16_Original ==
    LastCall.op = "get_recent" =>
        LET ret == LastCall.rows
        IN  /\ LastCall.n >= 0 => Len(ret) <= LastCall.n
            /\ \A i, j \in 1..Len(ret) : i < j => ret[i].timestamp > ret[j].timestamp
            /\ ret = NewestFirst(Before, Len(ret))

\* C16 (amended): get_recent(n) returns min(n, t) of the t stored records
\* for n >= 0 and all of them for n < 0, each once and as stored, in
\* descending order of timestamp with ties in any order; no record left
\* out is more recent than one returned; when the timestamps grew strictly
\* with insertion, the result is the most recently added records in reverse
\* insertion order.
C16_Amended ==
    LastCall.op = "get_recent" =>
        LET ret == LastCall.rows
            n == LastCall.n
        IN  /\ Len(ret) = IF n < 0 THEN Total ELSE Min(n, Total)
            /\ \A i, j \in 1..Len(ret) : i < j => ret[i].timestamp >= ret[j].timestamp
            /\ Range(ret) \subseteq Range(Before)
            /\ \A i, j \in 1..Len(ret) : i # j => ret[i].id # ret[j].id
            /\ \A r \in Range(Before) \ Range(ret) :
                  \A i \in 1..Len(ret) : ret[i].timestamp >= r.timestamp
            /\ StrictlyClocked(Before) => ret = NewestFirst(Before, Len(ret))

\* get_recent(1) on two records with the same timestamp returned the one
\* added first
C16_Witness ==
    /\ LastCall.op = "get_recent" /\ LastCall.n = 1
    /\ Total = 2 /\ Before[1].timestamp = Before[2].timestamp
    /\ LastCall.rows = <<Before[1]>>

\* C17: cleanup_old(k) on t records leaves min(k, t) records, each kept
\* record strictly more recent than each deleted one, and returns
\* t - min(k, t).
C17_Original ==
    LastCall.op = "cleanup_old" =>
        /\ Len(history) = Min(LastCall.n, Total)
        /\ \A kept \in Range(history) : \A gone \in Range(Before) \ Range(history) :
              kept.timestamp > gone.timestamp
        /\ LastCall.ret = Total - Min(LastCall.n, Total)

\* C17 (amended): cleanup_old(k), k >= 0, on t records leaves min(k, t) of
\* them, unchanged and in their order, no kept record older than a deleted
\* one (a kept and a deleted record may have the same timestamp), and
\* returns t - min(k, t).
C17_Amended ==
    LastCall.op = "cleanup_old" =>
        /\ Len(history) = Min(LastCall.n, Total)
        /\ history = SelectSeq(Before, LAMBDA r : r \in Range(history))
        /\ \A kept \in Range(history) : \A gone \in Range(Before) \ Range(history) :
              kept.timestamp >= gone.timestamp
        /\ LastCall.ret = Total - Min(LastCall.n, Total)

\* cleanup_old(1) on two records with the same timestamp deleted one
C17_Witness ==
    /\ LastCall.op = "cleanup_old" /\ LastCall.n = 1
    /\ Total = 2 /\ Before[1].timestamp = Before[2].timestamp
    /\ Len(history) = 1 /\ LastCall.ret = 1

\* C18: add(r) leaves the stored records as they are and appends one with
\* r's fields, which get_recent reads back; the id it returns is >= 1 and
\* greater than every id returned before, also after cleanup_old deleted
\* rows; the queries change nothing and cleanup_old only removes records.
C18_AppendOnly ==
    /\ LastCall.op = "add" =>
          LET stored == [LastCall.rows[1] EXCEPT !.id = LastCall.ret]
          IN  /\ history = Append(Before, stored)
              /\ \A rs \in get_recent(history, -1) : stored \in Range(rs)
              /\ LastCall.ret >= 1
              /\ LastCall.ret = ops.ids[Len(ops.ids)]
              /\ \A i \in 1..(Len(ops.ids) - 1) : ops.ids[i] < LastCall.ret
    /\ LastCall.op \in {"get_recent", "get_similar_failures", "get_stats"} =>
          history = Before
    /\ LastCall.op = "cleanup_old" => Range(history) \subseteq Range(Before)
    /\ \A i, j \in 1..Len(history) : i < j => history[i].id < history[j].id

\* an add after cleanup_old had emptied the store: the new record has id 2
C18_Witness ==
    /\ LastCall.op = "add" /\ Before = <<>>
    /\ ops.ids = <<1, 2>>
    /\ Len(history) = 1 /\ history[1].id = 2

\* C19: get_similar_failures(pattern, limit) returns the failed records
\* whose command contains pattern as a literal substring, and no other
\* record.
C19_Original ==
    LastCall.op = "get_similar_failures" =>
        \A r \in Range(LastCall.rows) :
            r.status = "failed" /\ Contains(r.command, LastCall.pattern)

\* the four documented statuses
Statuses == {"success", "failed", "cancelled", "simulated"}

\* C20: get_stats(filter) counts, for each of the four statuses, the stored
\* records with that status and, when a filter is given, that intent_type;
\* total is the number of those records and the sum of the four counts.
C20_Original ==
    LastCall.op = "get_stats" =>
        LET f == LastCall.intent_type
            match(r) == f = None \/ r.intent_type = The(f)
            st == LastCall.stats
        IN  /\ \A s \in Statuses :
                  st[s] = CountOf(Before, LAMBDA r : match(r) /\ r.status = s)
            /\ st.total = CountOf(Before, match)
            /\ st.total = st.success + st.failed + st.cancelled + st.simulated

\* C20 (amended): get_stats(filter) takes a filter that is None or empty as
\* no filter; each of the four counts is the number of matching records
\* with that status, total is the number of matching records, and total is
\* the sum of the four counts plus the matching records whose status is
\* none of the four.
C20_Amended ==
    LastCall.op = "get_stats" =>
        LET f == LastCall.intent_type
            match(r) == f = None \/ The(f) = "" \/ r.intent_type = The(f)
            st == LastCall.stats
        IN  /\ \A s \in Statuses :
                  st[s] = CountOf(Before, LAMBDA r : match(r) /\ r.status = s)
            /\ st.total = CountOf(Before, match)
            /\ st.total = st.success + st.failed + st.cancelled + st.simulated
                          + CountOf(Before, LAMBDA r : match(r) /\ r.status \notin Statuses)

\* get_stats("InstallPackage") on a failed install and an install with
\* another status: total 2, failed 1
C20_Witness ==
    /\ LastCall.op = "get_stats" /\ LastCall.intent_type = Some("InstallPackage")
    /\ Total = 2
    /\ LastCall.stats.total = 2 /\ LastCall.stats.failed = 1
    /\ LastCall.stats.success = 0

\* C21: constructing OperationHistory again on a database that exists keeps
\* every record with its id and the id the table assigns next, leaves the
\* table and its three indexes in place, and the queries made afterwards
\* return the records written before.
C21_ReopenKeepsRecords ==
    LastCall.op = "init" =>
        /\ history = Before
        /\ nextId = LastCall.ret
        /\ schema = [table |-> TRUE,
                     indexes |-> {"idx_timestamp", "idx_intent", "idx_status"}]
        /\ \A rs \in get_recent(history, -1) : Range(rs) = Range(Before)

\* the store was opened again while it held two records
C21_Witness ==
    /\ LastCall.op = "init"
    /\ Len(Before) >= 2
    /\ Len(history) = Len(Before)
    /\ schema.table

----------------------------------------------------------------------------
(* tinyllamax/adapters/factory.py and tinyllamax/core/intents.py *)

\* get_adapter(pm, dry_run): the exception raised ("" when none) and the
\* adapter built (the variant falls back to apt for a key it does not hold)
get_adapter_fallback(pm, dry_run) ==
    [raised |-> "",
     adapter |-> Some([pm |-> IF pm \in AdapterNames THEN pm ELSE "apt",
                       dry_run |-> dry_run])]
get_adapter(pm, dry_run) ==
    IF pm \notin AdapterNames THEN [raised |-> "ValueError", adapter |-> None]
    ELSE [raised |-> "", adapter |-> Some([pm |-> pm, dry_run |-> dry_run])]

\* a value of a decoded JSON payload: its Python type and str(value)
Json(t, s) == [t |-> t, s |-> s]
\* bool(value)
truth(v) ==
    CASE v.t = "str" -> v.s # ""
      [] v.t = "int" -> v.s # "0"
      [] v.t = "bool" -> v.s = "True"
      [] OTHER -> FALSE
\* the keys of _INTENT_MODEL_MAP
Variants ==
    {"DetectDistro", "SearchPackage", "InstallPackage", "RemovePackage",
     "UpdateSystem", "UpgradeSystem", "ExplainCommand", "TroubleshootError"}

\* Field(min_length=n) of a str field (the variant accepts any length)
min_length_any(s, n) == TRUE
min_length(s, n) == Len(s) >= n

\* parse_intent(obj): the exception raised ("" when none) and the intent
\* returned. model_cls(**obj) validates the str field of the variant
\* (a str of min_length 1) and assume_yes (a bool, or one of the strings
\* and ints pydantic converts to one; False when absent), and ignores the
\* other keys.
parse_intent(obj) ==
    LET items == obj.items
        Error == [raised |-> "IntentParseError", intent |-> None]
        intent_name == IF "intent" \in DOMAIN items THEN Some(items["intent"]) ELSE None
        tag == The(intent_name).s
        field == CASE tag = "SearchPackage" -> Some("query")
                   [] tag \in {"InstallPackage", "RemovePackage"} -> Some("package")
                   [] tag = "ExplainCommand" -> Some("command")
                   [] tag = "TroubleshootError" -> Some("error_text")
                   [] OTHER -> None
        text == IF field = None THEN Some("")
                ELSE IF /\ The(field) \in DOMAIN items
                        /\ items[The(field)].t = "str"
                        /\ min_length(items[The(field)].s, 1)
                     THEN Some(items[The(field)].s)
                     ELSE None
        flag == items["assume_yes"]
        assume_yes ==
            IF tag \notin {"InstallPackage", "RemovePackage"} THEN Some(FALSE)
            ELSE IF "assume_yes" \notin DOMAIN items THEN Some(FALSE)
            ELSE IF flag.t = "bool" THEN Some(flag.s = "True")
            ELSE IF flag.t = "str" /\ ToLower(flag.s) \in {"1", "on", "t", "true", "y", "yes"}
                 THEN Some(TRUE)
            ELSE IF flag.t = "str" /\ ToLower(flag.s) \in {"0", "off", "f", "false", "n", "no"}
                 THEN Some(FALSE)
            ELSE IF flag.t = "int" /\ flag.s \in {"0", "1"} THEN Some(flag.s = "1")
            ELSE None
    IN  IF obj.type # "dict" THEN Error
        ELSE IF intent_name = None \/ ~truth(The(intent_name)) THEN Error
        ELSE IF tag \notin Variants THEN Error
        ELSE IF items["intent"].t # "str" \/ text = None \/ assume_yes = None THEN Error
        ELSE [raised |-> "", intent |-> Some(Intent(tag, The(text), The(assume_yes)))]

----------------------------------------------------------------------------
(* gui/gtk_app.py: the window, its buttons and its background tasks *)

\* Propose clicks on one window, and Run clicks that are confirmed
MaxProposes == 2
MaxRuns == 1

\* _set_buttons_enabled(enabled): Run is only ever made insensitive here
set_buttons_enabled(g, enabled) ==
    [g EXCEPT !.propose_button = enabled,
              !.run_button = IF enabled THEN FALSE ELSE @]

\* run_background(task, on_done, on_error): a BackgroundTask whose thread
\* is about to call func on the plan (propose_and_simulate on the text of
\* that Propose click, execute_plan on the plan it captured)
StartTask(g, func, p) ==
    [g EXCEPT !.tasks = Append(@, [func |-> func, plan |-> p, cancelled |-> FALSE,
                                    pc |-> IF func = "propose" THEN "classify_intent"
                                           ELSE "execute_plan"]),
              !.current_task = Len(g.tasks) + 1]

GuiOnly == cmd = "none" /\ events = <<>>

\* _on_propose_clicked with a text entered
ProposeClicked ==
    /\ GuiOnly
    /\ gui.propose_button /\ ~gui.dialog
    /\ gui.proposes < MaxProposes
    /\ gui' = StartTask([set_buttons_enabled(gui, FALSE) EXCEPT
                            !.cancel_button = TRUE, !.proposes = @ + 1],
                        "propose", gui.proposes + 1)
    /\ UNCHANGED <<workflowVars, history, nextId, taskVars, storeVars, pureVars>>

\* the worker of a Propose in presenter.classify_intent: the model answers,
\* or the call raises
ClassifyIntent(t) ==
    /\ GuiOnly
    /\ gui.tasks[t].pc = "classify_intent"
    /\ \E next \in {"plan_intent", "raised"} :
          gui' = [gui EXCEPT !.tasks[t].pc = next]
    /\ UNCHANGED <<workflowVars, history, nextId, taskVars, storeVars, pureVars>>

\* the worker in presenter.plan_intent: self.current_plan = plan
PlanIntent(t) ==
    /\ GuiOnly
    /\ gui.tasks[t].pc = "plan_intent"
    /\ gui' = [gui EXCEPT !.current_plan = gui.tasks[t].plan,
                          !.tasks[t].pc = "simulate_plan"]
    /\ UNCHANGED <<workflowVars, history, nextId, taskVars, storeVars, pureVars>>

\* the worker in presenter.simulate_plan: simulate(plan) returns
SimulatePlan(t) ==
    /\ GuiOnly
    /\ gui.tasks[t].pc = "simulate_plan"
    /\ gui' = [gui EXCEPT !.simulated = @ \cup {gui.tasks[t].plan},
                          !.tasks[t].pc = "returned"]
    /\ UNCHANGED <<workflowVars, history, nextId, taskVars, storeVars, pureVars>>

\* the worker of a confirmed Run in presenter.execute_plan: execute(plan)
\* runs the real command of the plan _execute_real_command captured
ExecutePlan(t) ==
    /\ GuiOnly
    /\ gui.tasks[t].pc = "execute_plan"
    /\ LET p == gui.tasks[t].plan
           proposed == CHOOSE u \in 1..Len(gui.tasks) :
                           gui.tasks[u].func = "propose" /\ gui.tasks[u].plan = p
       IN  gui' = [gui EXCEPT
                     !.runs = Append(@, [plan |-> p,
                                         simulated |-> p \in gui.simulated,
                                         proposes |-> gui.proposes,
                                         cancelled |-> gui.tasks[proposed].cancelled]),
                     !.tasks[t].pc = "returned"]
    /\ UNCHANGED <<workflowVars, history, nextId, taskVars, storeVars, pureVars>>

\* the end of _run: on_done or on_error is called unless the token is
\* cancelled; the callbacks of the window queue idle callbacks
TaskEnds(t) ==
    /\ GuiOnly
    /\ gui.tasks[t].pc \in {"returned", "raised"}
    /\ LET queued ==
               IF gui.tasks[t].cancelled THEN <<>>
               ELSE IF gui.tasks[t].pc = "raised"
                    THEN <<"show_error", "set_buttons_enabled">>
               ELSE IF gui.tasks[t].func = "propose" THEN <<"on_propose_complete">>
               ELSE <<"set_buttons_enabled", "cancel_insensitive">>
       IN  gui' = [gui EXCEPT !.idle = @ \o queued, !.tasks[t].pc = "ended"]
    /\ UNCHANGED <<workflowVars, history, nextId, taskVars, storeVars, pureVars>>

\* the main loop runs the first idle callback
IdleCallback ==
    /\ GuiOnly
    /\ gui.idle # <<>>
    /\ LET g == [gui EXCEPT !.idle = Tail(@)]
           callback == Head(gui.idle)
       IN  gui' = CASE callback = "on_propose_complete" ->
                         [set_buttons_enabled(g, TRUE) EXCEPT
                             !.cancel_button = FALSE,
                             !.run_button = IF ~g.simulate_only_check THEN TRUE ELSE @]
                    [] callback = "set_buttons_enabled" -> set_buttons_enabled(g, TRUE)
                    [] callback = "cancel_insensitive" -> [g EXCEPT !.cancel_button = FALSE]
                    [] OTHER -> g
    /\ UNCHANGED <<workflowVars, history, nextId, taskVars, storeVars, pureVars>>

\* _on_cancel_clicked: the token of the current task is cancelled, its
\* thread goes on
CancelClicked ==
    /\ GuiOnly
    /\ gui.cancel_button /\ ~gui.dialog
    /\ gui.current_task # 0
    /\ gui' = [set_buttons_enabled(gui, TRUE) EXCEPT
                  !.tasks[gui.current_task].cancelled = TRUE,
                  !.cancel_button = FALSE]
    /\ UNCHANGED <<workflowVars, history, nextId, taskVars, storeVars, pureVars>>

\* the user checks or unchecks "Simulate Only"
ToggleSimulateOnly ==
    /\ GuiOnly
    /\ ~gui.dialog
    /\ gui' = [gui EXCEPT !.simulate_only_check = ~@]
    /\ UNCHANGED <<workflowVars, history, nextId, taskVars, storeVars, pureVars>>

\* _on_run_clicked with a plan present: the confirmation dialog opens
RunClicked ==
    /\ GuiOnly
    /\ gui.run_button /\ ~gui.dialog
    /\ gui.current_plan # 0
    /\ Len(gui.runs) < MaxRuns
    /\ \A t \in 1..Len(gui.tasks) : gui.tasks[t].func # "execute"
                                      \/ gui.tasks[t].pc # "execute_plan"
    /\ gui' = [gui EXCEPT !.dialog = TRUE]
    /\ UNCHANGED <<workflowVars, history, nextId, taskVars, storeVars, pureVars>>

\* on_response of the dialog: "Execute" calls _execute_real_command, which
\* takes presenter.current_plan as it is now
DialogResponse ==
    /\ GuiOnly
    /\ gui.dialog
    /\ \E response \in {0, 1} :
          gui' = IF response = 1 /\ gui.current_plan # 0
                 THEN StartTask([set_buttons_enabled(gui, FALSE) EXCEPT
                                    !.cancel_button = TRUE, !.dialog = FALSE],
                                "execute", gui.current_plan)
                 ELSE [gui EXCEPT !.dialog = FALSE]
    /\ UNCHANGED <<workflowVars, history, nextId, taskVars, storeVars, pureVars>>

GuiNext ==
    \/ ProposeClicked
    \/ CancelClicked
    \/ ToggleSimulateOnly
    \/ RunClicked
    \/ DialogResponse
    \/ IdleCallback
    \/ \E t \in 1..Len(gui.tasks) :
          \/ ClassifyIntent(t)
          \/ PlanIntent(t)
          \/ SimulatePlan(t)
          \/ ExecutePlan(t)
          \/ TaskEnds(t)

GuiSpec == Init /\ [][GuiNext]_vars

----------------------------------------------------------------------------
(* lib/executor.py: SafeExecutor *)

\* s.replace(old, new), old not empty
RECURSIVE Replace(_, _, _)
Replace(s, old, new) ==
    IF Len(s) < Len(old) THEN s
    ELSE IF SubSeq(s, 1, Len(old)) = old
         THEN new \o Replace(SubSeq(s, Len(old) + 1, Len(s)), old, new)
         ELSE CharAt(s, 1) \o Replace(SubSeq(s, 2, Len(s)), old, new)

RISK_PATTERNS ==
    [high |-> {"rm -rf", "dd", "mkfs", "fdisk", "parted", "reboot", "shutdown",
               "systemctl stop", "systemctl disable", "kill -9", "pkill -9"},
     medium |-> {"rm ", "mv", "chmod", "chown", "apt install", "dnf install",
                 "pacman -S", "systemctl restart", "kill ", "pkill "},
     low |-> {"ls", "cat", "grep", "find", "which", "apt search", "man",
              "systemctl status", "ps", "top", "df", "du"}]

\* SafeExecutor.plan(command): _assess_risk looks for the patterns in the
\* lowered command, HIGH first, and takes MEDIUM when it finds none;
\* _supports_dry_run looks for the name of a tool in the command
ExecutionPlan(command) ==
    LET cmd_lower == ToLower(command)
        found(level) == \E pattern \in RISK_PATTERNS[level] : Contains(cmd_lower, pattern)
    IN  [command |-> command,
         risk_level |-> IF found("high") THEN "high"
                        ELSE IF found("medium") THEN "medium"
                        ELSE IF found("low") THEN "low"
                        ELSE "medium",
         dry_run_available |-> \E tool \in {"apt", "dnf", "zypper", "rsync"} :
                                  Contains(command, tool)]

\* the string _execute_command hands to subprocess.run(shell=True)
execute_command(command, dry_run) ==
    IF ~dry_run THEN command
    ELSE IF Contains(command, "apt") THEN command \o " --dry-run"
    ELSE IF Contains(command, "dnf") \/ Contains(command, "yum")
         THEN Replace(command, "-y", "--assumeno")
    ELSE IF Contains(command, "zypper")
         THEN Replace(command, "install", "install --dry-run")
    ELSE command

\* _default_confirm(plan) on the line input() gave
default_confirm(p, auto_confirm_low_risk, answer) ==
    IF p.risk_level = "low" /\ auto_confirm_low_risk THEN TRUE
    ELSE LET response == Strip(ToLower(answer))
         IN  CASE p.risk_level = "high" -> response = "yes"
               [] p.risk_level = "medium" -> response = "y"
               [] OTHER -> response # "n"

\* one _execute_command: the string run and the dry_run flag
Ran(command, dry_run) == [command |-> execute_command(command, dry_run), dry_run |-> dry_run]

\* SafeExecutor.execute(plan, confirm_callback): the lines read by input(),
\* the commands run in order, and the returncode of the result (the
\* commands exit with 0; -2 is the cancelled result)
SafeExecutor_execute(p, interactive, auto_confirm_low_risk, confirm_callback, answers) ==
    LET asks == interactive /\ confirm_callback = None
                /\ ~(p.risk_level = "low" /\ auto_confirm_low_risk)
        confirmed == IF ~interactive THEN TRUE
                     ELSE IF confirm_callback # None THEN The(confirm_callback)
                     ELSE default_confirm(p, auto_confirm_low_risk, answers[1])
        simulates == p.dry_run_available /\ p.risk_level # "low"
        dry == IF simulates THEN <<Ran(p.command, TRUE)>> ELSE <<>>
        first == IF asks THEN <<answers[1]>> ELSE <<>>
    IN  IF ~confirmed
        THEN [read |-> first, ran |-> <<>>, returncode |-> -2]
        ELSE IF simulates /\ interactive /\ ToLower(answers[2]) # "y"
        THEN [read |-> Append(first, answers[2]), ran |-> dry, returncode |-> -2]
        ELSE [read |-> IF simulates /\ interactive THEN Append(first, answers[2]) ELSE first,
              ran |-> Append(dry, Ran(p.command, FALSE)), returncode |-> 0]

----------------------------------------------------------------------------
(* The adapters, the planner and the parser applied on their own *)

\* n copies of s, one after the other
RECURSIVE Repeat(_, _)
Repeat(s, n) == IF n <= 0 THEN "" ELSE s \o Repeat(s, n - 1)

\* commands whose output is longer than what a history record holds: a
\* listing of 12 lines, and a failure with 12 lines of errors
LongOutcomes ==
    { Completed(0, Repeat("Get:1 http://archive main amd64\n", 12), ""),
      Completed(1, Repeat("Reading package lists... Done\n", 12),
                   Repeat("E: Unable to locate package 0123456789 abcdefghij\n", 12)) }

\* the list object that is result.command of the value a call returned:
\* run builds ShellResult(command=cmd) from the list it was handed, which
\* is the plan's own list; the early return of simulate builds a list of
\* its own; the early return of execute has no ShellResult
command_object(c) ==
    IF c.ret = None \/ The(c.ret).result = None THEN "none"
    ELSE IF c.shell = <<>> THEN "own"
    ELSE IF c.fn = "simulate" THEN "simulate_cmd"
    ELSE "real_cmd"

\* the dict with the keys "intent", key and "assume_yes" whose value is given
Dict(tag, key, value, assume_yes) ==
    LET given == {kv \in {<<"intent", tag>>, <<key, value>>, <<"assume_yes", assume_yes>>} :
                    kv[2] # None}
    IN  [type |-> "dict",
         items |-> [k \in {kv[1] : kv \in given} |->
                      The((CHOOSE kv \in given : kv[1] = k)[2])]]

\* the arguments callers pass: package lists and queries of the adapters
\* (a name may start with a dash), keys of the factory, intents and distro
\* ids of build_plan, payloads of parse_intent
PureArgs ==
    [packages |-> {<<"htop">>, <<"vim", "git">>, <<>>, <<"-y">>},
     query |-> {"htop", "-y"},
     pm |-> AdapterNames \cup {"unknown", "APT", ""},
     intent |-> {Intent("DetectDistro", "", FALSE),
                 Intent("SearchPackage", "htop", FALSE),
                 Intent("SearchPackage", "-y", FALSE),
                 Intent("InstallPackage", "htop", FALSE),
                 Intent("InstallPackage", "htop", TRUE),
                 Intent("InstallPackage", "-y", FALSE),
                 Intent("RemovePackage", "htop", FALSE),
                 Intent("UpdateSystem", "", FALSE),
                 Intent("UpgradeSystem", "", FALSE),
                 Intent("ExplainCommand", "ls -la", FALSE),
                 Intent("ExplainCommand", " ", FALSE),
                 Intent("ExplainCommand", "$(reboot)", FALSE),
                 Intent("TroubleshootError", "No such file or directory", FALSE)},
     distro_id |-> {None, Some(""), Some("ubuntu"), Some("Ubuntu"), Some("fedora"),
                    Some("arch"), Some("opensuse-leap"), Some("alpine"),
                    Some("unknown")},
     stdout |-> {"", " \n", "done", "line1\nline2\n", " a\n\n b\nc "},
     stderr |-> {"", "\n \n", "E: no vim", "W: one\n\nW: two\n",
                 "1\n2\n3\n4\n5\n6\n7\n8\n9\n10"},
     max_lines |-> {-1, 0, 1, 2, 3, DefaultMaxLines},
     outcome |-> Outcomes \cup LongOutcomes,
     command |-> {"sudo apt install htop", "sudo dnf install -y htop",
                  "sudo dnf install htop", "sudo zypper install vim",
                  "sudo zypper remove vim", "rsync -a --delete src/ dst/",
                  "apt search vim", "ls -la", "rm -rf build"},
     answer |-> {"y", "Y", "yes", "n", "no", ""},
     obj |-> {[type |-> "int", items |-> <<>>], [type |-> "list", items |-> <<>>]}
             \cup {Dict(tag, key, value, assume_yes) :
                     tag \in {None, Some(Json("NoneType", "None")), Some(Json("str", "")),
                              Some(Json("int", "7")), Some(Json("str", "UnknownThing")),
                              Some(Json("str", "installpackage"))}
                             \cup {Some(Json("str", v)) : v \in Variants},
                     key \in {"query", "package", "command", "error_text"},
                     value \in {None, Some(Json("NoneType", "None")), Some(Json("str", "")),
                                Some(Json("str", " ")), Some(Json("str", "htop")),
                                Some(Json("int", "5"))},
                     assume_yes \in {None, Some(Json("bool", "True")),
                                     Some(Json("str", "maybe"))}}]

\* adapter_cls(dry_run).install(packages), .remove(packages), .update(),
\* .upgrade() or .search(query) is called
ApplyAdapter ==
    /\ applied = NotApplied
    /\ \E pm \in AdapterNames, dry_run \in BOOLEAN :
       \E c \in {[op |-> "install", packages |-> p, argv |-> AdapterInstall(pm, dry_run, p)] :
                    p \in PureArgs.packages}
                \cup {[op |-> "remove", packages |-> p, argv |-> AdapterRemove(pm, dry_run, p)] :
                        p \in PureArgs.packages}
                \cup {[op |-> "update", packages |-> <<>>, argv |-> AdapterUpdate(pm, dry_run)],
                      [op |-> "upgrade", packages |-> <<>>, argv |-> AdapterUpgrade(pm, dry_run)]}
                \cup {[op |-> "search", packages |-> <<q>>, argv |-> AdapterSearch(pm, dry_run, q)] :
                        q \in PureArgs.query} :
          applied' = [fn |-> "adapter", pm |-> pm, dry_run |-> dry_run, op |-> c.op,
                      packages |-> c.packages, argv |-> c.argv]
    /\ UNCHANGED <<workflowVars, history, nextId, taskVars, storeVars, guiVars>>

\* get_adapter(pm, dry_run) is called
ApplyGetAdapter ==
    /\ applied = NotApplied
    /\ \E pm \in PureArgs.pm, dry_run \in BOOLEAN :
          applied' = [fn |-> "get_adapter", pm |-> pm, dry_run |-> dry_run,
                      raised |-> get_adapter(pm, dry_run).raised,
                      adapter |-> get_adapter(pm, dry_run).adapter]
    /\ UNCHANGED <<workflowVars, history, nextId, taskVars, storeVars, guiVars>>

\* build_plan(intent, distro_id) is called
ApplyBuildPlan ==
    /\ applied = NotApplied
    /\ \E intent \in PureArgs.intent, distro_id \in PureArgs.distro_id :
          applied' = [fn |-> "build_plan", intent |-> intent, distro_id |-> distro_id,
                      raised |-> build_plan(intent, distro_id).raised,
                      plan |-> build_plan(intent, distro_id).plan]
    /\ UNCHANGED <<workflowVars, history, nextId, taskVars, storeVars, guiVars>>

\* parse_intent(obj) is called
ApplyParseIntent ==
    /\ applied = NotApplied
    /\ \E obj \in PureArgs.obj :
          applied' = [fn |-> "parse_intent", obj |-> obj,
                      raised |-> parse_intent(obj).raised,
                      intent |-> parse_intent(obj).intent]
    /\ UNCHANGED <<workflowVars, history, nextId, taskVars, storeVars, guiVars>>

\* summarize_output(stdout, stderr, max_lines) is called
ApplySummarizeOutput ==
    /\ applied = NotApplied
    /\ \E stdout \in PureArgs.stdout, stderr \in PureArgs.stderr,
          max_lines \in PureArgs.max_lines :
          applied' = [fn |-> "summarize_output", stdout |-> stdout, stderr |-> stderr,
                      max_lines |-> max_lines,
                      result |-> summarize_output(stdout, stderr, max_lines)]
    /\ UNCHANGED <<workflowVars, history, nextId, taskVars, storeVars, guiVars>>

\* simulate or execute as applied to a plan: the plan as build_plan
\* returned it and as it is now, the last call, the calls made, and the
\* items of the list that is result.command of the value returned
Applied(intent, distro_id, built, p, c, n, items) ==
    [fn |-> "planner", intent |-> intent, distro_id |-> distro_id, built |-> built,
     plan |-> p, call |-> c, n |-> n, command |-> items]

CommandItems(c) ==
    IF command_object(c) = "none" THEN None ELSE Some(The(The(c.ret).result).command)

\* build_plan(intent, distro_id) returns a plan and simulate or execute is
\* called on it
ApplyPlanner ==
    /\ applied = NotApplied
    /\ \E intent \in PureArgs.intent, distro_id \in PureArgs.distro_id,
          o \in PureArgs.outcome, accept \in BOOLEAN :
        /\ build_plan(intent, distro_id).raised = ""
        /\ LET p == The(build_plan(intent, distro_id).plan)
           IN  \E c \in {simulate(p, o, accept, 0, 1), execute(p, o, accept, 0, 1)} :
                 applied' = Applied(intent, distro_id, p, p, c, 1, CommandItems(c))
    /\ UNCHANGED <<workflowVars, history, nextId, taskVars, storeVars, guiVars>>

\* simulate or execute is called again on the same plan
PlannerCallAgain ==
    /\ applied.fn = "planner"
    /\ applied.n < MaxCalls
    /\ \E o \in {Completed(0, "done", "W: held back"), Completed(1, "", "")} :
       \E c \in {simulate(applied.plan, o, TRUE, 0, applied.n + 1),
                  execute(applied.plan, o, TRUE, 0, applied.n + 1)} :
          applied' = [applied EXCEPT !.call = c, !.n = @ + 1, !.command = CommandItems(c)]
    /\ UNCHANGED <<workflowVars, history, nextId, taskVars, storeVars, guiVars>>

\* the caller of simulate or execute appends to result.result.command, a
\* plain list: when that list is one of the plan's own, the plan has it too
CallerAppends ==
    /\ applied.fn = "planner"
    /\ applied.command # None
    /\ Len(The(applied.command)) <= Len(The(The(applied.call.ret).result).command)
    /\ LET items == Append(The(applied.command), "--force")
           object == command_object(applied.call)
       IN  applied' = [applied EXCEPT
                          !.command = Some(items),
                          !.plan = CASE object = "simulate_cmd" ->
                                          [@ EXCEPT !.simulate_cmd = Some(items)]
                                     [] object = "real_cmd" ->
                                          [@ EXCEPT !.real_cmd = Some(items)]
                                     [] OTHER -> @]
    /\ UNCHANGED <<workflowVars, history, nextId, taskVars, storeVars, guiVars>>

\* calls made on the module-level functions of history.py in one process
MaxHistoryCalls == 3

DefaultDbPath == "~/.local/share/tinyllamax/history.sqlite"

\* OperationHistory(db_path): the instance (the n-th one constructed), or
\* nothing when __init__ raised (the directory or the file cannot be made)
OperationHistory(db_path, n, opens) ==
    IF opens
    THEN Some([n |-> n, db_path |-> IF db_path = None THEN DefaultDbPath ELSE The(db_path)])
    ELSE None

\* get_history that constructs anew when it is given a db_path
get_history_by_path(instance, made, db_path, opens) ==
    IF instance = None \/ db_path # None
    THEN LET new == OperationHistory(db_path, made + 1, opens)
         IN  [instance |-> IF new = None THEN instance ELSE new, ret |-> new,
              made |-> IF new = None THEN made ELSE made + 1]
    ELSE [instance |-> instance, ret |-> instance, made |-> made]

\* get_history(db_path): _history_instance afterwards, the value returned
\* (nothing when the constructor raised) and the instances constructed so far
get_history(instance, made, db_path, opens) ==
    IF instance = None
    THEN LET new == OperationHistory(db_path, made + 1, opens)
         IN  [instance |-> new, ret |-> new, made |-> IF new = None THEN made ELSE made + 1]
    ELSE [instance |-> instance, ret |-> instance, made |-> made]

\* one call of a module-level function: the db_path given, the instance
\* get_history returned, and the file the method called on it worked on
HistoryCall(op, db_path, ret, store) ==
    [op |-> op, db_path |-> db_path, ret |-> ret, store |-> store]

\* the process after the calls of trace
HistoryModule(instance, made, trace) ==
    [fn |-> "get_history", instance |-> instance, made |-> made, trace |-> trace]

HistoryModuleNow ==
    IF applied = NotApplied THEN HistoryModule(None, 0, <<>>) ELSE applied

\* get_history(db_path) is called
CallGetHistory ==
    /\ applied.fn \in {"none", "get_history"}
    /\ Len(HistoryModuleNow.trace) < MaxHistoryCalls
    /\ \E db_path \in {None, Some("/tmp/a.sqlite"), Some("/tmp/b.sqlite")},
          opens \in BOOLEAN :
        LET m == HistoryModuleNow
            r == get_history(m.instance, m.made, db_path, opens)
        IN  applied' = HistoryModule(r.instance, r.made,
                            Append(m.trace, HistoryCall("get_history", db_path, r.ret, None)))
    /\ UNCHANGED <<workflowVars, history, nextId, taskVars, storeVars, guiVars>>

\* log_operation, get_recent_operations or find_similar_failures is
\* called: get_history() and a method of the instance it returns
CallConvenience ==
    /\ applied.fn \in {"none", "get_history"}
    /\ Len(HistoryModuleNow.trace) < MaxHistoryCalls
    /\ \E op \in {"log_operation", "get_recent_operations", "find_similar_failures"},
          opens \in BOOLEAN :
        LET m == HistoryModuleNow
            r == get_history(m.instance, m.made, None, opens)
        IN  applied' = HistoryModule(r.instance, r.made,
                            Append(m.trace,
                                   HistoryCall(op, None, r.ret,
                                               IF r.ret = None THEN None
                                               ELSE Some(The(r.ret).db_path))))
    /\ UNCHANGED <<workflowVars, history, nextId, taskVars, storeVars, guiVars>>

\* SafeExecutor(interactive, auto_confirm_low_risk).execute(plan(command),
\* confirm_callback) is called
ApplySafeExecutor ==
    /\ applied = NotApplied
    /\ \E p \in {ExecutionPlan(command) : command \in PureArgs.command} :
       \E interactive \in BOOLEAN, auto_confirm_low_risk \in BOOLEAN,
          confirm_callback \in {None, Some(TRUE), Some(FALSE)},
          answers \in [1..2 -> PureArgs.answer] :
        LET r == SafeExecutor_execute(p, interactive, auto_confirm_low_risk,
                                      confirm_callback, answers)
        IN  applied' = [fn |-> "SafeExecutor", plan |-> p, interactive |-> interactive,
                        confirm_callback |-> confirm_callback,
                        read |-> r.read, ran |-> r.ran, returncode |-> r.returncode]
    /\ UNCHANGED <<workflowVars, history, nextId, taskVars, storeVars, guiVars>>

PureNext ==
    \/ ApplySafeExecutor
    \/ CallGetHistory
    \/ CallConvenience
    \/ ApplyPlanner
    \/ PlannerCallAgain
    \/ CallerAppends
    \/ ApplySummarizeOutput
    \/ ApplyAdapter
    \/ ApplyGetAdapter
    \/ ApplyBuildPlan
    \/ ApplyParseIntent

PureSpec == Init /\ [][PureNext]_vars

----------------------------------------------------------------------------
(* Properties of the adapters, the planner and the parser *)

\* the per-manager table of the adapters' contract: for each operation and
\* dry_run value the vector that precedes the package list or the query
\* (the table has no column for a real upgrade)
TableRow(pm) ==
    CASE pm = "apt" ->
           [install_real |-> <<"sudo", "apt", "install", "-y">>,
            install_dry |-> <<"apt", "install", "-s">>,
            remove_real |-> <<"sudo", "apt", "remove", "-y">>,
            remove_dry |-> <<"apt", "remove", "-s">>,
            update_real |-> <<"sudo", "apt", "update">>,
            update_dry |-> <<"apt", "update", "-s">>,
            upgrade_dry |-> <<"apt", "upgrade", "-s">>,
            search |-> <<"apt", "search">>,
            preview |-> {"-s"}]
      [] pm = "dnf" ->
           [install_real |-> <<"sudo", "dnf", "install", "-y">>,
            install_dry |-> <<"dnf", "install", "--assumeno">>,
            remove_real |-> <<"sudo", "dnf", "remove", "-y">>,
            remove_dry |-> <<"dnf", "remove", "--assumeno">>,
            update_real |-> <<"sudo", "dnf", "upgrade", "-y">>,
            update_dry |-> <<"dnf", "upgrade", "--assumeno">>,
            upgrade_dry |-> <<"dnf", "upgrade", "--assumeno">>,
            search |-> <<"dnf", "search">>,
            preview |-> {"--assumeno"}]
      [] pm = "pacman" ->
           [install_real |-> <<"sudo", "pacman", "-S", "--noconfirm">>,
            install_dry |-> <<"pacman", "-Sp">>,
            remove_real |-> <<"sudo", "pacman", "-R", "--noconfirm">>,
            remove_dry |-> <<"pacman", "-R", "--print">>,
            update_real |-> <<"sudo", "pacman", "-Syu", "--noconfirm">>,
            update_dry |-> <<"pacman", "-Syu", "--print">>,
            upgrade_dry |-> <<"pacman", "-Qu">>,
            search |-> <<"pacman", "-Ss">>,
            preview |-> {"-Sp", "--print", "-Qu"}]
      [] pm = "zypper" ->
           [install_real |-> <<"sudo", "zypper", "install", "-y">>,
            install_dry |-> <<"zypper", "--dry-run", "install">>,
            remove_real |-> <<"sudo", "zypper", "remove", "-y">>,
            remove_dry |-> <<"zypper", "--dry-run", "remove">>,
            update_real |-> <<"sudo", "zypper", "update", "-y">>,
            update_dry |-> <<"zypper", "--dry-run", "update">>,
            upgrade_dry |-> <<"zypper", "--dry-run", "update">>,
            search |-> <<"zypper", "search">>,
            preview |-> {"--dry-run"}]
      [] pm = "apk" ->
           [install_real |-> <<"sudo", "apk", "add">>,
            install_dry |-> <<"apk", "add", "--simulate">>,
            remove_real |-> <<"sudo", "apk", "del">>,
            remove_dry |-> <<"apk", "del", "--simulate">>,
            update_real |-> <<"sudo", "apk", "update">>,
            update_dry |-> <<"apk", "update", "--simulate">>,
            upgrade_dry |-> <<"apk", "upgrade", "--simulate">>,
            search |-> <<"apk", "search">>,
            preview |-> {"--simulate"}]

\* the table's entry for an operation, None where it has no column
Documented(pm, op, dry_run) ==
    LET row == TableRow(pm)
    IN  CASE op = "install" -> Some(IF dry_run THEN row.install_dry ELSE row.install_real)
          [] op = "remove" -> Some(IF dry_run THEN row.remove_dry ELSE row.remove_real)
          [] op = "update" -> Some(IF dry_run THEN row.update_dry ELSE row.update_real)
          [] op = "upgrade" -> IF dry_run THEN Some(row.upgrade_dry) ELSE None
          [] op = "search" -> Some(row.search)

\* the native auto-confirm flags
AutoConfirm == {"-y", "--noconfirm"}
\* the elements of the vector an adapter returned that precede the package
\* list or the query it was given
OwnElements == SubSeq(applied.argv, 1, Len(applied.argv) - Len(applied.packages))

\* C22: for every adapter, every operation and every package list or query,
\* the vector built with dry_run = True contains neither "--noconfirm" nor
\* "-y" and contains a simulation or preview flag of the manager's table row.
C22_Original ==
    applied.fn = "adapter" /\ applied.dry_run =>
        /\ Range(applied.argv) \cap AutoConfirm = {}
        /\ Range(applied.argv) \cap TableRow(applied.pm).preview # {}

\* C22 as the adapters have it: the elements the adapter itself puts in a
\* dry-run vector hold no auto-confirm flag; they hold a preview flag of
\* the manager for install, remove, update and upgrade and none for search;
\* the package list or the query follows them as it was given, whatever its
\* elements are.
C22_Amended ==
    applied.fn = "adapter" /\ applied.dry_run =>
        /\ Range(OwnElements) \cap AutoConfirm = {}
        /\ applied.op # "search" => Range(OwnElements) \cap TableRow(applied.pm).preview # {}
        /\ applied.op = "search" => Range(OwnElements) \cap TableRow(applied.pm).preview = {}
        /\ applied.argv = OwnElements \o applied.packages

\* a dry-run install of a package named "-y": the vector holds the preview
\* flag and, as its last element, "-y"
C22_Witness ==
    /\ applied.fn = "adapter" /\ applied.dry_run
    /\ applied.pm = "dnf" /\ applied.op = "install"
    /\ applied.packages = <<"-y">>
    /\ applied.argv = <<"dnf", "install", "--assumeno", "-y">>

\* C23: install, remove, update, upgrade and search of each adapter return
\* the vector of the table for both dry_run values, followed by the package
\* list in the given order; a real install, remove, update or upgrade starts
\* with "sudo", a dry-run vector never does, and search returns the same
\* vector for both dry_run values.
C23_AdaptersMatchTable ==
    applied.fn = "adapter" =>
        /\ Documented(applied.pm, applied.op, applied.dry_run) # None =>
              applied.argv = The(Documented(applied.pm, applied.op, applied.dry_run))
                                \o applied.packages
        /\ ~applied.dry_run /\ applied.op # "search" => applied.argv[1] = "sudo"
        /\ applied.dry_run => applied.argv[1] # "sudo"
        /\ applied.op = "search" =>
              applied.argv = AdapterSearch(applied.pm, ~applied.dry_run, applied.packages[1])

\* a dry-run zypper install of two packages: the flag precedes the
\* operation and the packages follow in their order
C23_Witness ==
    /\ applied.fn = "adapter" /\ applied.dry_run
    /\ applied.pm = "zypper" /\ applied.op = "install"
    /\ applied.packages = <<"vim", "git">>
    /\ applied.argv = <<"zypper", "--dry-run", "install", "vim", "git">>

\* the five intents that go through a package manager
ManagerIntents ==
    {"SearchPackage", "InstallPackage", "RemovePackage", "UpdateSystem", "UpgradeSystem"}

\* the manager the distro table gives for a distro id ("unknown" when the
\* table has none); no id and the empty id stand for "ubuntu"
Manager(distro_id) ==
    IF distro_id \in {None, Some(""), Some("ubuntu"), Some("Ubuntu")} THEN "apt"
    ELSE IF distro_id = Some("fedora") THEN "dnf"
    ELSE IF distro_id = Some("arch") THEN "pacman"
    ELSE IF distro_id = Some("opensuse-leap") THEN "zypper"
    ELSE IF distro_id = Some("alpine") THEN "apk"
    ELSE "unknown"

\* what the adapter of pm returns for the operation of the intent
AdapterOutput(pm, dry_run, intent) ==
    CASE intent.intent = "SearchPackage" -> AdapterSearch(pm, dry_run, intent.text)
      [] intent.intent = "InstallPackage" -> AdapterInstall(pm, dry_run, <<intent.text>>)
      [] intent.intent = "RemovePackage" -> AdapterRemove(pm, dry_run, <<intent.text>>)
      [] intent.intent = "UpdateSystem" -> AdapterUpdate(pm, dry_run)
      [] intent.intent = "UpgradeSystem" -> AdapterUpgrade(pm, dry_run)

\* the commands of the plan that was built
Commands ==
    IF applied.plan = None THEN {}
    ELSE The(applied.plan).simulate_cmd \cup The(applied.plan).real_cmd

\* C24: build_plan for Search, Install, Remove, Update and Upgrade and a
\* distro id the table maps to manager M returns a Plan whose simulate_cmd is
\* the output of M's dry-run adapter and whose real_cmd is the output of M's
\* normal adapter; no distro id and the empty one behave like "ubuntu".
C24_PlansUseAdapters ==
    /\ /\ applied.fn = "build_plan"
       /\ applied.intent.intent \in ManagerIntents
       /\ Manager(applied.distro_id) \in AdapterNames
       => /\ applied.raised = ""
          /\ applied.plan # None
          /\ The(applied.plan).simulate_cmd =
                Some(AdapterOutput(Manager(applied.distro_id), TRUE, applied.intent))
          /\ The(applied.plan).real_cmd =
                Some(AdapterOutput(Manager(applied.distro_id), FALSE, applied.intent))
    /\ /\ applied.fn = "build_plan"
       /\ applied.intent = Intent("InstallPackage", "htop", FALSE)
       /\ applied.distro_id \in {None, Some(""), Some("ubuntu")}
       => /\ The(applied.plan).simulate_cmd = Some(<<"apt", "install", "-s", "htop">>)
          /\ The(applied.plan).real_cmd = Some(<<"sudo", "apt", "install", "-y", "htop">>)
    /\ /\ applied.fn = "build_plan"
       /\ applied.intent.intent = "UpgradeSystem"
       /\ applied.distro_id = Some("arch")
       => The(applied.plan).simulate_cmd = Some(<<"pacman", "-Qu">>)

\* UpgradeSystem on arch: the plan of pacman's two adapters
C24_Witness ==
    /\ applied.fn = "build_plan"
    /\ applied.intent.intent = "UpgradeSystem" /\ applied.distro_id = Some("arch")
    /\ applied.plan # None
    /\ The(applied.plan).simulate_cmd = Some(<<"pacman", "-Qu">>)
    /\ The(applied.plan).real_cmd = Some(<<"sudo", "pacman", "-Syu", "--noconfirm">>)

\* C25: the dispatch of build_plan covers the eight variants,
\* TroubleshootError among them: for an intent of the closed set the only
\* ValueError is the one of a distro id without a manager, raised for one
\* of the five intents that need one.
C25_Original ==
    /\ applied.fn = "build_plan"
    /\ applied.intent.intent \in Variants
    /\ applied.raised = "ValueError"
    => /\ applied.intent.intent \in ManagerIntents
       /\ Manager(applied.distro_id) = "unknown"

\* C26: for every Plan build_plan returns, real_cmd is absent exactly when
\* the intent is DetectDistro or ExplainCommand, and simulate_cmd is present
\* and not empty.
C26_RealCmdAbsence ==
    applied.fn = "build_plan" /\ applied.raised = "" =>
        /\ applied.plan # None
        /\ The(applied.plan).real_cmd = None
              <=> applied.intent.intent \in {"DetectDistro", "ExplainCommand"}
        /\ The(applied.plan).simulate_cmd # None
        /\ The(The(applied.plan).simulate_cmd) # <<>>

\* a plan with both commands was returned for RemovePackage
C26_Witness ==
    /\ applied.fn = "build_plan" /\ applied.raised = ""
    /\ applied.intent.intent = "RemovePackage" /\ applied.distro_id = Some("alpine")
    /\ The(applied.plan).real_cmd = Some(<<"sudo", "apk", "del", "htop">>)
    /\ The(applied.plan).simulate_cmd = Some(<<"apk", "del", "--simulate", "htop">>)

\* C27: the factory raises ValueError for every identifier outside apt, dnf,
\* pacman, zypper and apk; build_plan for one of the five manager intents
\* and a distro id the table does not hold raises it, returns no Plan, runs
\* no command and writes no history; DetectDistro and ExplainCommand are
\* planned the same for any distro id.
C27_UnknownManagerFailsFast ==
    /\ applied.fn = "get_adapter" =>
          IF applied.pm \in {"apt", "dnf", "pacman", "zypper", "apk"}
          THEN /\ applied.raised = ""
               /\ applied.adapter = Some([pm |-> applied.pm, dry_run |-> applied.dry_run])
          ELSE applied.raised = "ValueError" /\ applied.adapter = None
    /\ /\ applied.fn = "build_plan"
       /\ applied.intent.intent \in ManagerIntents
       /\ Manager(applied.distro_id) = "unknown"
       => /\ applied.raised = "ValueError"
          /\ applied.plan = None
          /\ calls = <<>>
          /\ history = <<>>
    /\ applied.fn = "build_plan" /\ applied.intent.intent = "DetectDistro" =>
          /\ applied.raised = ""
          /\ applied.plan = build_plan(applied.intent, Some("ubuntu")).plan
    /\ applied.fn = "build_plan" /\ applied.intent.intent = "ExplainCommand" =>
          /\ Split(applied.intent.text) # <<>> => applied.raised = ""
          /\ applied.raised = build_plan(applied.intent, Some("ubuntu")).raised
          /\ applied.plan = build_plan(applied.intent, Some("ubuntu")).plan

\* InstallPackage on the distro id "unknown": ValueError and no Plan
C27_Witness ==
    /\ applied.fn = "build_plan"
    /\ applied.intent.intent = "InstallPackage" /\ applied.distro_id = Some("unknown")
    /\ applied.raised = "ValueError"
    /\ applied.plan = None

\* the programs that interpret an argument as a command line
Shells == {"bash", "sh"}

\* C28: in every Plan build_plan returns, the text the user supplied
\* (package, query, command) appears only as a whole element of a command,
\* and no command that starts a shell holds it.
C28_Original ==
    applied.fn = "build_plan" /\ applied.raised = "" /\ applied.intent.text # "" =>
        \A c \in Commands :
            /\ \A i \in 1..Len(c) :
                  Contains(c[i], Split(applied.intent.text)[1]) => c[i] = applied.intent.text
            /\ c[1] \in Shells =>
                  \A i \in 1..Len(c) : ~Contains(c[i], Split(applied.intent.text)[1])

\* C29: for every valid intent and every distro id build_plan returns a
\* Plan or raises ValueError; no other exception leaves it.
C29_Original ==
    applied.fn = "build_plan" => applied.raised \in {"", "ValueError"}

\* the fields each variant requires
Required(tag) ==
    CASE tag = "SearchPackage" -> {"query"}
      [] tag \in {"InstallPackage", "RemovePackage"} -> {"package"}
      [] tag = "ExplainCommand" -> {"command"}
      [] tag = "TroubleshootError" -> {"error_text"}
      [] OTHER -> {}

----------------------------------------------------------------------------
(* Properties of the worker thread under a fair scheduler *)

\* C31: cancel() never interrupts the running work: _run ends only after
\* func returned or raised, also when cancel() returned while func was
\* running (an execute in flight still appends its record); once func has
\* ended the thread ends, so is_alive() becomes false and stays false; it is
\* false before start().
C31_CancelNeverInterrupts ==
    /\ [](worker.pc = "unstarted" => ~is_alive)
    /\ [](RunOver => ~is_alive /\ FuncEnded # {})
    /\ [][RunOver => RunOver']_vars
    /\ is_alive ~> RunOver
    /\ (CancelledMidRun # {}) ~> (FuncEnded # {} /\ RunOver)

\* cancel() returned while execute_plan had not run yet; execute still ran,
\* logged its record and the thread ended
C31_Witness ==
    /\ CancelledMidRun # {}
    /\ RunOver /\ ~is_alive
    /\ \E c \in CancelledMidRun, r \in Happened("row") : c < r

----------------------------------------------------------------------------
(* Properties of threads that add at the same time *)

\* the threads whose add has returned
AddReturned == {w \in 1..MaxWriters : writers.at[w].pc = "returned"}

----------------------------------------------------------------------------
(* Properties of the output summary *)

Marker == "--- STDERR ---"

\* the non-blank lines of a stream (its leading and trailing whitespace
\* removed first)
NonBlankLines(stream) == NonBlank(SplitLines(Strip(stream)))

\* the lines to summarise: those of stdout, then, when stderr has a
\* non-blank line, the marker and those of stderr
Combined(stdout, stderr) ==
    NonBlankLines(stdout) \o
    (IF NonBlankLines(stderr) # <<>> THEN <<Marker>> \o NonBlankLines(stderr) ELSE <<>>)

\* the last n of lines (all of them when there are fewer, none for n <= 0)
LastLines(lines, n) ==
    IF n <= 0 THEN <<>>
    ELSE IF Len(lines) <= n THEN lines
    ELSE [i \in 1..n |-> lines[Len(lines) - n + i]]

\* the lines of a summary (the placeholder has none)
SummaryLines(summary) == IF summary = "<no output>" THEN <<>> ELSE SplitLines(summary)

HasLine(lines, line) == \E i \in 1..Len(lines) : lines[i] = line

\* C35 as stated: the summary is the last N lines of the combined lines, has
\* at most N lines, contains the marker whenever stderr has a non-blank
\* line, and is "<no output>" exactly when neither stream has a non-blank
\* line (read for N >= 1)
C35_Original ==
    applied.fn = "summarize_output" /\ applied.max_lines >= 1 =>
        LET lines == Combined(applied.stdout, applied.stderr)
            N == applied.max_lines
        IN  /\ SummaryLines(applied.result) = LastLines(lines, N)
            /\ Len(SummaryLines(applied.result)) <= N
            /\ NonBlankLines(applied.stderr) # <<>> =>
                    HasLine(SummaryLines(applied.result), Marker)
            /\ applied.result = "<no output>" <=> lines = <<>>

\* C35, amended: for N >= 1 the summary is the last N lines of the combined
\* lines, has at most N lines, and is "<no output>" exactly when neither
\* stream has a non-blank line; it contains the marker when stderr has
\* fewer than N non-blank lines, and with N or more of them the marker is
\* cut off with the head (with the default N = 10: ten lines of stderr).
\* N = 0 keeps every line; N < 0 drops the first -N lines and keeps the rest
C35_Amended ==
    applied.fn = "summarize_output" =>
        LET lines == Combined(applied.stdout, applied.stderr)
            err == NonBlankLines(applied.stderr)
            N == applied.max_lines
            kept == SummaryLines(applied.result)
        IN  /\ N >= 1 =>
                /\ kept = LastLines(lines, N)
                /\ Len(kept) <= N
                /\ applied.result = "<no output>" <=> lines = <<>>
                /\ err # <<>> /\ Len(err) < N => HasLine(kept, Marker)
                /\ Len(err) >= N /\ ~HasLine(err, Marker) => ~HasLine(kept, Marker)
            /\ N = 0 => kept = lines
            /\ N < 0 => /\ Len(lines) > -N =>
                            kept = [i \in 1..(Len(lines) + N) |-> lines[i - N]]
                        /\ Len(lines) <= -N => applied.result = "<no output>"

\* the default N with ten lines of stderr after a line of stdout: the
\* summary is the ten lines of stderr, the marker is gone
C35_Witness ==
    /\ applied.fn = "summarize_output"
    /\ applied.max_lines = DefaultMaxLines
    /\ applied.stdout = "done"
    /\ Len(NonBlankLines(applied.stderr)) = DefaultMaxLines
    /\ SummaryLines(applied.result) = NonBlankLines(applied.stderr)

----------------------------------------------------------------------------
(* Properties of the filtered queries *)

\* the column a filtered query compares with its argument
Column(record, op) == IF op = "get_by_intent" THEN record.intent_type ELSE record.status

\* the records held before call c whose column equals the argument of c
Matching(c) == SelectSeq(c.before, LAMBDA r : Column(r, c.op) = c.pattern)

----------------------------------------------------------------------------
(* Properties of simulate and execute applied to the plans of build_plan *)

\* C33 as stated: a plan is as build_plan returned it, whatever calls of
\* simulate and execute were made on it and whatever their caller did with
\* the values they returned
C33_Original ==
    applied.fn = "planner" => applied.plan = applied.built

\* the first n characters of s
FirstChars(s, n) == [i \in 1..(IF Len(s) < n THEN Len(s) ELSE n) |-> CharAt(s, i)]
SameText(s, chars) ==
    /\ Len(s) = Len(chars)
    /\ \A i \in 1..Len(s) : CharAt(s, i) = chars[i]

\* C34: the record simulate or execute writes has as output_summary the
\* first 200 characters of the summary, and as error_message, when execute
\* failed with a non-empty stderr, the first 500 characters of stderr
\* (nothing otherwise); the summary and the stderr of the value returned are
\* those of the command, whole
C34_TruncationForStorageOnly ==
    applied.fn = "planner" /\ applied.call.rows # <<>> =>
        LET c == applied.call
            row == c.rows[1]
            ret == The(c.ret)
            res == The(ret.result)
            failed == c.fn = "execute" /\ res.returncode # 0 /\ res.stderr # ""
        IN  /\ SameText(row.output_summary, FirstChars(ret.summary, 200))
            /\ failed => /\ row.error_message # None
                         /\ SameText(The(row.error_message), FirstChars(res.stderr, 500))
            /\ ~failed => row.error_message = None
            /\ c.outcome.kind = "completed" =>
                /\ res.stderr = c.outcome.err
                /\ ret.summary = Join(LastLines(Combined(c.outcome.out, c.outcome.err), 10),
                                       "\n")
                   \/ (ret.summary = "<no output>"
                       /\ Combined(c.outcome.out, c.outcome.err) = <<>>)

\* execute failed with more than 500 characters of stderr and a summary of
\* more than 200: the record holds the first 500 and 200, the caller the whole
C34_Witness ==
    /\ applied.fn = "planner" /\ applied.call.fn = "execute"
    /\ applied.call.rows # <<>>
    /\ Len(applied.call.rows[1].output_summary) = 200
    /\ Len(The(applied.call.ret).summary) > 200
    /\ applied.call.rows[1].error_message # None
    /\ Len(The(applied.call.rows[1].error_message)) = 500
    /\ Len(The(The(applied.call.ret).result).stderr) > 500

\* the first whitespace-separated word of s
FirstWord(s) == SubSeq(LStrip(s), 1, WordEnd(LStrip(s), 1) - 1)

\* the intent variants build_plan has a branch for, and the word their
\* records are found under
PlannedVariants ==
    {"DetectDistro", "SearchPackage", "InstallPackage", "RemovePackage",
     "UpdateSystem", "UpgradeSystem", "ExplainCommand"}
Word(variant) ==
    CASE variant = "DetectDistro" -> "Detect"
      [] variant = "SearchPackage" -> "Search"
      [] variant = "InstallPackage" -> "Install"
      [] variant = "RemovePackage" -> "Remove"
      [] variant = "UpdateSystem" -> "Update"
      [] variant = "UpgradeSystem" -> "Upgrade"
      [] variant = "ExplainCommand" -> "Explain"

\* C37: a record simulate or execute appends has as intent_type the first
\* word of plan.description; for a plan of build_plan that is the word of
\* the intent's variant, the seven words are pairwise distinct, and
\* get_by_intent and get_stats with the word of a variant find the record
\* exactly when the variant is that of the intent
C37_IntentTypeIsFirstWord ==
    /\ \A v, w \in PlannedVariants : Word(v) = Word(w) => v = w
    /\ applied.fn = "planner" =>
        \A i \in 1..Len(applied.call.rows) :
            LET row == applied.call.rows[i]
            IN  /\ row.intent_type = FirstWord(applied.plan.description)
                /\ applied.intent.intent \in PlannedVariants
                /\ row.intent_type = Word(applied.intent.intent)
                /\ \A v \in PlannedVariants :
                    /\ get_by_intent(<<row>>, Word(v), 1) =
                           {IF v = applied.intent.intent THEN <<row>> ELSE <<>>}
                    /\ get_stats(<<row>>, Some(Word(v))).total =
                           IF v = applied.intent.intent THEN 1 ELSE 0

\* execute on the plan of an UpgradeSystem intent wrote a record under
\* "Upgrade", which is not the word of UpdateSystem
C37_Witness ==
    /\ applied.fn = "planner" /\ applied.call.fn = "execute"
    /\ applied.intent.intent = "UpgradeSystem"
    /\ applied.call.rows # <<>>
    /\ applied.call.rows[1].intent_type = "Upgrade"

----------------------------------------------------------------------------
(* Properties of the history singleton *)

\* the calls of the trace that returned an instance
Returning(trace) == {i \in 1..Len(trace) : trace[i].ret # None}

\* C40: every call of get_history after the first one that returned gives
\* the instance that one returned, whatever db_path it is given; one
\* instance is constructed, and log_operation, get_recent_operations and
\* find_similar_failures work on the file of that instance
C40_Singleton ==
    applied.fn = "get_history" =>
        LET trace == applied.trace
        IN  /\ \A i, j \in Returning(trace) : trace[i].ret = trace[j].ret
            /\ \A i \in Returning(trace) : applied.instance = trace[i].ret
            /\ Returning(trace) # {} => applied.made = 1
            /\ \A i, j \in Returning(trace) :
                trace[j].store # None => The(trace[j].store) = The(trace[i].ret).db_path

\* the first call chose a file, a later call named another file and got
\* the same instance, and a convenience function then used the first file
C40_Witness ==
    /\ applied.fn = "get_history"
    /\ Len(applied.trace) = 3
    /\ applied.trace[1].op = "get_history"
    /\ applied.trace[1].db_path = Some("/tmp/a.sqlite") /\ applied.trace[1].ret # None
    /\ applied.trace[2].op = "get_history"
    /\ applied.trace[2].db_path = Some("/tmp/b.sqlite")
    /\ applied.trace[2].ret = applied.trace[1].ret
    /\ applied.trace[3].op = "log_operation"
    /\ applied.trace[3].store = Some("/tmp/a.sqlite")

----------------------------------------------------------------------------
(* Properties of the legacy executor *)

DryRunFlags == {"--dry-run", "--assumeno", "--simulate", "-s ", " -n "}

\* a line that agrees to the prompt
Positive(answer) == Strip(ToLower(answer)) \in {"y", "yes"}

\* C39 as stated: the command run by the simulation step (which runs when
\* the plan reports dry-run support and its risk is not LOW) carries a
\* dry-run flag and is not the real command; the real command is run only
\* as the last step, and in interactive mode only when every prompt was
\* answered positively, the result being the cancelled one (returncode
\* -2) otherwise
C39_Original ==
    applied.fn = "SafeExecutor" =>
        LET p == applied.plan
            ran == applied.ran
        IN  /\ \A i \in 1..Len(ran) :
                ran[i].dry_run =>
                    /\ p.dry_run_available /\ p.risk_level # "low"
                    /\ \E flag \in DryRunFlags : Contains(ran[i].command, flag)
                    /\ ran[i].command # p.command
            /\ \A i \in 1..Len(ran) :
                ran[i].command = p.command => i = Len(ran) /\ ~ran[i].dry_run
            /\ applied.interactive =>
                IF /\ \A i \in 1..Len(applied.read) : Positive(applied.read[i])
                   /\ applied.confirm_callback # Some(FALSE)
                THEN TRUE
                ELSE /\ applied.returncode = -2
                     /\ \A i \in 1..Len(ran) : ran[i].command # p.command

----------------------------------------------------------------------------
(* Properties of the window *)

\* C38 as stated: in every interleaving of Propose, Cancel and Run with
\* the workers, the plan whose real command a Run executes has been
\* simulated to the end, is the plan of the most recent Propose, and is
\* not one a cancelled worker put in place
C38_Original ==
    \A i \in 1..Len(gui.runs) :
        /\ gui.runs[i].simulated
        /\ gui.runs[i].plan = gui.runs[i].proposes
        /\ ~gui.runs[i].cancelled

====
